---- MODULE Spec2Model ----
(***************************************************************************)
(* Ingestion-and-enrichment pipeline of chat-project-management:           *)
(*   - the transcription pipeline (TranscriptionService, its Bull queue    *)
(*     'transcription' and TranscriptionProcessor),                        *)
(*   - the message store written by the Teams/Slack sync runs and by the   *)
(*     webhook handlers.                                                   *)
(* Strings that the code transforms are sequences of characters; a         *)
(* confidence is an exact fraction <<numerator, denominator>> of           *)
(* hundredths.                                                             *)
(***************************************************************************)
EXTENDS Integers, Sequences, FiniteSets, Bags, TLC

VARIABLES
    recordings,      \* AudioRecording table: Seq of rows, the index is the row id
    transcriptions,  \* Transcription table: Seq of rows, append only
    blobs,           \* Blob store: storage key -> bytes (NoBytes when absent)
    jobs,            \* Bull queue 'transcription': Seq of jobs, the index is the job id
    retrying,        \* retryTranscription calls between their status check and queueTranscription
    response,        \* what the last finished controller call returned
    call,            \* one transcribeAudio call on its own: its session and its result
    messages,        \* Message table: bag of rows
    syncs,           \* running syncAllMessages calls: slot -> run, Idle when free
    entities,        \* Entity table: bag of rows
    tasks,           \* Task table: bag of rows
    requirements,    \* Requirement table: bag of rows
    projects,        \* Project table: Seq of rows, the index is the row id
    nlpJobs,         \* Bull queue 'nlp-processing': Seq of jobs, the index is the job id
    nlpRuns          \* running processMessage calls: slot -> run, NoRun when free

transVars == <<recordings, transcriptions, blobs, jobs, retrying, response>>
syncVars == <<messages, syncs>>
nlpVars == <<entities, tasks, requirements, projects, nlpJobs, nlpRuns>>
vars == <<recordings, transcriptions, blobs, jobs, retrying, response, call, messages, syncs,
          entities, tasks, requirements, projects, nlpJobs, nlpRuns>>

----------------------------------------------------------------------------
(* Bounds of the model *)

MaxRecordings == 1
MaxJobs == 2
MaxWorkers == 1
MaxInstances == 2
MaxRetryCalls == 1
MaxSegments == 2
MaxSyncs == 2
MaxSyncCalls == 1
MaxPage == 1
MaxContent == 2
MaxNlpJobs == 1
MaxNlpRuns == 2
MaxNlpCalls == 1

(* Program constants *)

TranscribeAttempts == 3
ProcessMessageAttempts == 2

----------------------------------------------------------------------------
(* Strings as sequences of characters *)

Space == " "

RECURSIVE TrimLeft(_)
TrimLeft(s) ==
    IF s # <<>> /\ Head(s) = Space THEN TrimLeft(Tail(s)) ELSE s

RECURSIVE TrimRight(_)
TrimRight(s) ==
    IF s # <<>> /\ s[Len(s)] = Space THEN TrimRight(SubSeq(s, 1, Len(s) - 1)) ELSE s

\* String.prototype.trim
Trim(s) == TrimRight(TrimLeft(s))

----------------------------------------------------------------------------
(* Fractions, for the mean of the segment confidences *)

RECURSIVE Gcd(_, _)
Gcd(a, b) == IF b = 0 THEN a ELSE Gcd(b, a % b)

Frac(n, d) == LET g == Gcd(n, d) IN IF g = 0 THEN <<0, 1>> ELSE <<n \div g, d \div g>>

Half == Frac(50, 100)

----------------------------------------------------------------------------
(* StorageService *)

NoBytes == "none"
Bytes == {"b1", "b2"}
Sources == {"teams"}
RecSourceIds == {"rec-1"}
MimeTypes == {"audio/wav"}

getExtensionFromMimeType(mimeType) ==
    CASE mimeType \in {"audio/mpeg", "audio/mp3"} -> "mp3"
      [] mimeType \in {"audio/wav", "audio/wave", "audio/x-wav"} -> "wav"
      [] mimeType \in {"audio/mp4", "audio/x-m4a"} -> "m4a"
      [] mimeType = "video/mp4" -> "mp4"
      [] mimeType = "audio/ogg" -> "ogg"
      [] mimeType = "audio/webm" -> "webm"
      [] OTHER -> "bin"

\* recordings/{source}/{yyyy}/{mm}/{dd}/{recordingId}.{extension}; the model runs within one day
generateRecordingKey(source, recordingId, extension) ==
    <<"recordings", source, recordingId, extension>>

StorageKeys ==
    {generateRecordingKey(s, i, getExtensionFromMimeType(m)) :
        s \in Sources, i \in RecSourceIds, m \in MimeTypes}

\* uploadFile: PutObject under the key, returns https://{bucket}.s3.amazonaws.com/{key}
uploadFileUrl(key) == <<"https://bucket.s3.amazonaws.com/">> \o key

\* extractStorageKey: the path of an amazonaws.com URL without its leading slash
extractStorageKey(urlOrPath) ==
    IF urlOrPath # <<>> /\ Head(urlOrPath) = "https://bucket.s3.amazonaws.com/"
    THEN Tail(urlOrPath)
    ELSE urlOrPath

----------------------------------------------------------------------------
(* TranscriptionService.transcribeAudio *)

\* What the recognizer's callbacks see during one session: the recognized events
\* in order, then the event that settles the promise.
SegChoices ==
    { [reason |-> "RecognizedSpeech", text |-> <<"h", "i">>, hasProps |-> TRUE, parsed |-> -1],
      [reason |-> "RecognizedSpeech", text |-> <<>>, hasProps |-> TRUE, parsed |-> 90],
      [reason |-> "RecognizedSpeech", text |-> <<"h", "i">>, hasProps |-> FALSE, parsed |-> -1],
      [reason |-> "NoMatch", text |-> <<>>, hasProps |-> TRUE, parsed |-> 90] }

SegSeqs == UNION {[1..n -> SegChoices] : n \in 0..MaxSegments}

SessionEnds == {"sessionStopped", "canceled", "startError", "notConfigured"}

Sessions == [segments : SegSeqs, end : SessionEnds]

\* The sessions the pipeline's workers meet: silence or one segment, stopped or canceled
WorkerSessions ==
    {s \in Sessions : /\ s.end \in {"sessionStopped", "canceled"}
                      /\ \A k \in DOMAIN s.segments :
                            s.segments[k].text # <<>> /\ s.segments[k].hasProps
                      /\ Len(s.segments) <= 1}

NoResult == [ok |-> FALSE, text |-> <<>>, language |-> "", confidence |-> <<0, 1>>]

\* fullText += e.result.text + ' ' for every RecognizedSpeech event
RECURSIVE fullTextOf(_)
fullTextOf(segs) ==
    IF segs = <<>> THEN <<>>
    ELSE (IF Head(segs).reason = "RecognizedSpeech"
          THEN Head(segs).text \o <<Space>>
          ELSE <<>>) \o fullTextOf(Tail(segs))

Counted(seg) == seg.reason = "RecognizedSpeech" /\ seg.hasProps

\* totalConfidence += confidence || 0.5 (parsed = -1 stands for NaN), in hundredths
RECURSIVE totalConfidenceOf(_)
totalConfidenceOf(segs) ==
    IF segs = <<>> THEN 0
    ELSE (IF Counted(Head(segs))
          THEN (IF Head(segs).parsed \in {-1, 0} THEN 50 ELSE Head(segs).parsed)
          ELSE 0) + totalConfidenceOf(Tail(segs))

RECURSIVE recognitionCountOf(_)
recognitionCountOf(segs) ==
    IF segs = <<>> THEN 0
    ELSE (IF Counted(Head(segs)) THEN 1 ELSE 0) + recognitionCountOf(Tail(segs))

avgConfidenceOf(segs) ==
    IF recognitionCountOf(segs) > 0
    THEN Frac(totalConfidenceOf(segs), 100 * recognitionCountOf(segs))
    ELSE Half

\* The sessionStopped handler's resolve(...)
sessionStoppedResult(segs) ==
    [ok |-> TRUE, text |-> Trim(fullTextOf(segs)), language |-> "en-US",
     confidence |-> avgConfidenceOf(segs)]

transcribeAudio_NoSpeechRejected(session) ==
    IF session.end = "sessionStopped" /\ fullTextOf(session.segments) # <<>>
    THEN sessionStoppedResult(session.segments)
    ELSE NoResult

\* ok = FALSE is a rejected promise
transcribeAudio(session) ==
    IF session.end = "sessionStopped" THEN sessionStoppedResult(session.segments) ELSE NoResult

----------------------------------------------------------------------------
(* Rows and jobs *)

RecordingIds == 1..MaxRecordings

createRecording_Processing(source, sourceId, fileUrl) ==
    [source |-> source, sourceId |-> sourceId, fileUrl |-> fileUrl,
     transcriptionStatus |-> "processing"]

createRecording(source, sourceId, fileUrl) ==
    [source |-> source, sourceId |-> sourceId, fileUrl |-> fileUrl,
     transcriptionStatus |-> "pending"]

setStatus(recs, id, status) == [recs EXCEPT ![id].transcriptionStatus = status]

\* transcriptionQueue.add('transcribe', {recordingId}, {attempts: 3, ...})
newJob(recordingId) ==
    [recordingId |-> recordingId, state |-> "waiting", attemptsMade |-> 0,
     pc |-> "idle", result |-> NoResult]

newTranscription_NoContent(recordingId, result) ==
    [audioRecordingId |-> recordingId, content |-> <<>>,
     language |-> result.language, confidenceScore |-> result.confidence]

newTranscription(recordingId, result) ==
    [audioRecordingId |-> recordingId, content |-> result.text,
     language |-> result.language, confidenceScore |-> result.confidence]

NoResponse == [op |-> "none", success |-> TRUE, id |-> 0, status |-> "none"]

Failure(op, id) == [op |-> op, success |-> FALSE, id |-> id, status |-> "none"]

Success(op, id, status) == [op |-> op, success |-> TRUE, id |-> id, status |-> status]

ActiveJobs == {j \in DOMAIN jobs : jobs[j].state = "active"}

Exists(id) == id \in DOMAIN recordings

----------------------------------------------------------------------------------------------------------------------------------------
(* TranscriptionService, called from TranscriptionController *)

queueTranscriptionResult_NoStatusUpdate(recs, js, recordingId, fault) ==
    IF recordingId \notin DOMAIN recs \/ fault = "queue"
    THEN [recordings |-> recs, jobs |-> js, ok |-> FALSE]
    ELSE [recordings |-> recs, jobs |-> Append(js, newJob(recordingId)), ok |-> TRUE]

\* queueTranscription: the status update, then transcriptionQueue.add. A missing row
\* makes the update throw; fault = "queue" makes the add throw
queueTranscriptionResult(recs, js, recordingId, fault) ==
    IF recordingId \notin DOMAIN recs
    THEN [recordings |-> recs, jobs |-> js, ok |-> FALSE]
    ELSE IF fault = "queue"
    THEN [recordings |-> setStatus(recs, recordingId, "pending"), jobs |-> js, ok |-> FALSE]
    ELSE [recordings |-> setStatus(recs, recordingId, "pending"),
          jobs |-> Append(js, newJob(recordingId)), ok |-> TRUE]

\* POST upload. fault: "none", "blob" (uploadFile throws) or "queue"
uploadAndProcessRecording(source, sourceId, audioBuffer, contentType, fault) ==
    LET key == generateRecordingKey(source, sourceId, getExtensionFromMimeType(contentType))
        recording == createRecording(source, sourceId, uploadFileUrl(key))
        id == Len(recordings) + 1
        queued == queueTranscriptionResult(Append(recordings, recording), jobs, id, fault)
    IN /\ Len(recordings) < MaxRecordings
       /\ Len(jobs) < MaxJobs
       /\ IF fault = "blob"
          THEN /\ response' = Failure("upload", 0)
               /\ UNCHANGED <<recordings, blobs, jobs>>
          ELSE /\ blobs' = [blobs EXCEPT ![key] = audioBuffer]
               /\ recordings' = queued.recordings
               /\ jobs' = queued.jobs
               /\ response' = IF queued.ok
                              THEN Success("upload", id, recording.transcriptionStatus)
                              ELSE Failure("upload", id)
       /\ UNCHANGED <<transcriptions, retrying, call, syncVars, nlpVars>>

\* POST recordings/:id/queue
queueTranscription(recordingId, fault) ==
    LET queued == queueTranscriptionResult(recordings, jobs, recordingId, fault)
    IN /\ Len(jobs) < MaxJobs
       /\ recordings' = queued.recordings
       /\ jobs' = queued.jobs
       /\ response' = IF queued.ok
                      THEN Success("queue", recordingId, "none")
                      ELSE Failure("queue", recordingId)
       /\ UNCHANGED <<transcriptions, blobs, retrying, call, syncVars, nlpVars>>

RetryAccepted_NoStatusCheck(recordingId) == Exists(recordingId)

\* retryTranscription's two checks: the row exists and its status is failed
RetryAccepted(recordingId) ==
    Exists(recordingId) /\ recordings[recordingId].transcriptionStatus = "failed"

\* POST recordings/:id/retry, up to the call of queueTranscription
retryTranscriptionCheck(recordingId) ==
    /\ IF RetryAccepted(recordingId)
       THEN /\ retrying[recordingId] < MaxRetryCalls
            /\ retrying' = [retrying EXCEPT ![recordingId] = @ + 1]
            /\ UNCHANGED response
       ELSE /\ response' = Failure("retry", recordingId)
            /\ UNCHANGED retrying
    /\ UNCHANGED <<recordings, transcriptions, blobs, jobs, call, syncVars, nlpVars>>

\* POST recordings/:id/retry, its call of queueTranscription and its return
retryTranscriptionQueue(recordingId, fault) ==
    LET queued == queueTranscriptionResult(recordings, jobs, recordingId, fault)
    IN /\ retrying[recordingId] > 0
       /\ Len(jobs) < MaxJobs
       /\ retrying' = [retrying EXCEPT ![recordingId] = @ - 1]
       /\ recordings' = queued.recordings
       /\ jobs' = queued.jobs
       /\ response' = IF queued.ok
                      THEN Success("retry", recordingId, "none")
                      ELSE Failure("retry", recordingId)
       /\ UNCHANGED <<transcriptions, blobs, call, syncVars, nlpVars>>

----------------------------------------------------------------------------
(* TranscriptionProcessor.handleTranscription running                     *)
(* TranscriptionService.processTranscription, one action per await.       *)
(* A store write may throw (storeFault); the write of the catch block is  *)
(* taken to succeed whenever the row exists.                              *)

JobAt(j, pc) == j \in DOMAIN jobs /\ jobs[j].state = "active" /\ jobs[j].pc = pc

Goto(j, pc) == [jobs EXCEPT ![j].pc = pc]

\* The queue hands a waiting job to a free worker
startJob(j) ==
    /\ j \in DOMAIN jobs
    /\ jobs[j].state = "waiting"
    /\ Cardinality(ActiveJobs) < MaxWorkers
    /\ jobs' = [jobs EXCEPT ![j].state = "active", ![j].pc = "start"]
    /\ UNCHANGED <<recordings, transcriptions, blobs, retrying, response, call, syncVars, nlpVars>>

\* try: update transcriptionStatus to 'processing'
setProcessing(j, storeFault) ==
    /\ JobAt(j, "start")
    /\ IF storeFault \/ ~Exists(jobs[j].recordingId)
       THEN /\ jobs' = Goto(j, "catch")
            /\ UNCHANGED recordings
       ELSE /\ recordings' = setStatus(recordings, jobs[j].recordingId, "processing")
            /\ jobs' = Goto(j, "fetch")
    /\ UNCHANGED <<transcriptions, blobs, retrying, response, call, syncVars, nlpVars>>

\* try: findUnique, downloadFile(extractStorageKey(...)), transcribeAudio(audioBuffer)
downloadAndTranscribe(j, downloadFault, session) ==
    /\ JobAt(j, "fetch")
    /\ LET recording == recordings[jobs[j].recordingId]
           storageKey == extractStorageKey(recording.fileUrl)
           audioBuffer == IF storageKey \in DOMAIN blobs THEN blobs[storageKey] ELSE NoBytes
           result == transcribeAudio(session)
       IN IF downloadFault \/ audioBuffer = NoBytes \/ ~result.ok
          THEN jobs' = Goto(j, "catch")
          ELSE jobs' = [jobs EXCEPT ![j].pc = "store", ![j].result = result]
    /\ UNCHANGED <<recordings, transcriptions, blobs, retrying, response, call, syncVars, nlpVars>>

storeTranscription_NoRow(j, storeFault) ==
    /\ JobAt(j, "store")
    /\ jobs' = Goto(j, IF storeFault THEN "catch" ELSE "finish")
    /\ UNCHANGED <<recordings, transcriptions, blobs, retrying, response, call, syncVars, nlpVars>>

\* try: transcription.create
storeTranscription(j, storeFault) ==
    /\ JobAt(j, "store")
    /\ IF storeFault
       THEN /\ jobs' = Goto(j, "catch")
            /\ UNCHANGED transcriptions
       ELSE /\ transcriptions' =
                   Append(transcriptions, newTranscription(jobs[j].recordingId, jobs[j].result))
            /\ jobs' = Goto(j, "finish")
    /\ UNCHANGED <<recordings, blobs, retrying, response, call, syncVars, nlpVars>>

\* try: update transcriptionStatus to 'completed'
setCompleted(j, storeFault) ==
    /\ JobAt(j, "finish")
    /\ IF storeFault
       THEN /\ jobs' = Goto(j, "catch")
            /\ UNCHANGED recordings
       ELSE /\ recordings' = setStatus(recordings, jobs[j].recordingId, "completed")
            /\ jobs' = Goto(j, "return")
    /\ UNCHANGED <<transcriptions, blobs, retrying, response, call, syncVars, nlpVars>>

catchFailed_StatusKept(j) ==
    /\ JobAt(j, "catch")
    /\ jobs' = Goto(j, "throw")
    /\ UNCHANGED <<recordings, transcriptions, blobs, retrying, response, call, syncVars, nlpVars>>

\* catch: update transcriptionStatus to 'failed', then throw
catchFailed(j) ==
    /\ JobAt(j, "catch")
    /\ recordings' = IF Exists(jobs[j].recordingId)
                     THEN setStatus(recordings, jobs[j].recordingId, "failed")
                     ELSE recordings
    /\ jobs' = Goto(j, "throw")
    /\ UNCHANGED <<transcriptions, blobs, retrying, response, call, syncVars, nlpVars>>

\* handleTranscription returns {success: true}: the queue marks the job completed
jobCompleted(j) ==
    /\ JobAt(j, "return")
    /\ jobs' = [jobs EXCEPT ![j].state = "completed", ![j].pc = "idle"]
    /\ UNCHANGED <<recordings, transcriptions, blobs, retrying, response, call, syncVars, nlpVars>>

jobFailed_NoAttemptLimit(j) ==
    /\ JobAt(j, "throw")
    /\ jobs' = [jobs EXCEPT ![j].attemptsMade = @ + 1,
                            ![j].pc = "idle",
                            ![j].result = NoResult,
                            ![j].state = "delayed"]
    /\ UNCHANGED <<recordings, transcriptions, blobs, retrying, response, call, syncVars, nlpVars>>

\* handleTranscription rethrows: the queue counts the attempt and, with attempts left,
\* delays the job for its backoff; otherwise the job is failed for good
jobFailed(j) ==
    /\ JobAt(j, "throw")
    /\ jobs' = [jobs EXCEPT ![j].attemptsMade = @ + 1,
                            ![j].pc = "idle",
                            ![j].result = NoResult,
                            ![j].state = IF jobs[j].attemptsMade + 1 < TranscribeAttempts
                                         THEN "delayed" ELSE "failed"]
    /\ UNCHANGED <<recordings, transcriptions, blobs, retrying, response, call, syncVars, nlpVars>>

\* The exponential backoff of a delayed job is over
backoffElapsed(j) ==
    /\ j \in DOMAIN jobs
    /\ jobs[j].state = "delayed"
    /\ jobs' = [jobs EXCEPT ![j].state = "waiting"]
    /\ UNCHANGED <<recordings, transcriptions, blobs, retrying, response, call, syncVars, nlpVars>>

----------------------------------------------------------------------------
(* The Message table: prisma.message with its unique constraint on          *)
(* (source, sourceId)                                                        *)

Null == "<null>"

\* projectId of a message that is linked to no project
NoProject == 0

\* x || ''
OrEmpty(x) == IF x \in {Null, ""} THEN "" ELSE x

\* x || fallback
OrElse(x, fallback) == IF x \in {Null, ""} THEN fallback ELSE x

RowsWithKey(table, source, sourceId) ==
    {row \in BagToSet(table) : row.source = source /\ row.sourceId = sourceId}

HasKey(table, source, sourceId) == RowsWithKey(table, source, sourceId) # {}

messageCreate_NoConstraint(table, row) ==
    [table |-> table (+) SetToBag({row}), ok |-> TRUE]

\* prisma.message.create: a second row with the same (source, sourceId) is refused
\* (unique constraint violation), which the caller sees as a thrown error
messageCreate(table, row) ==
    IF HasKey(table, row.source, row.sourceId)
    THEN [table |-> table, ok |-> FALSE]
    ELSE [table |-> table (+) SetToBag({row}), ok |-> TRUE]

messageUpdate_ResetsRow(table, row, content, timestamp) ==
    (table (-) SetToBag({row}))
        (+) SetToBag({[row EXCEPT !.content = content, !.timestamp = timestamp,
                                  !.projectId = 0]})

messageUpdate_InsertsCopy(table, row, content, timestamp) ==
    table (+) SetToBag({[row EXCEPT !.content = content, !.timestamp = timestamp]})

\* the update branch of prisma.message.upsert: content and timestamp only
messageUpdate(table, row, content, timestamp) ==
    (table (-) SetToBag({row}))
        (+) SetToBag({[row EXCEPT !.content = content, !.timestamp = timestamp]})

\* prisma.message.upsert after its lookup said found: update when found, create
\* otherwise; a row created by someone else in between makes the create throw
messageUpsertWrite(table, found, row) ==
    IF found /\ HasKey(table, row.source, row.sourceId)
    THEN [table |-> messageUpdate(table,
                                  CHOOSE old \in RowsWithKey(table, row.source, row.sourceId) : TRUE,
                                  row.content, row.timestamp),
          ok |-> TRUE]
    ELSE messageCreate(table, row)

\* prisma.message.upsert with nothing running in between
messageUpsert(table, row) ==
    messageUpsertWrite(table, HasKey(table, row.source, row.sourceId), row)

----------------------------------------------------------------------------
(* What the platforms return *)

TeamList == <<"T1", "T2">>

ChannelsOf(team) ==
    IF team = "T1" THEN <<[id |-> "c1", name |-> "General"]>>
    ELSE <<[id |-> "c2", name |-> "Dev"]>>

SlackChannels == <<[id |-> "s1", name |-> "general"], [id |-> "s2", name |-> Null]>>

\* A Teams message: id, body.content, createdDateTime, from.user. Channel c1 holds
\* message t1 before and after an edit, channel c2 a message without body and author.
TeamsRaw ==
    { [channel |-> "c1", id |-> "t1", content |-> "a", created |-> 1,
       fromId |-> "u1", fromName |-> "Ann"],
      [channel |-> "c1", id |-> "t1", content |-> "b", created |-> 2,
       fromId |-> "u1", fromName |-> "Ann"],
      [channel |-> "c2", id |-> "t2", content |-> Null, created |-> 1,
       fromId |-> Null, fromName |-> Null] }

\* A Slack message: ts, text, user, bot_id, subtype
SlackRaw ==
    { [channel |-> "s1", ts |-> "1.5", text |-> "a", user |-> "u1",
       bot_id |-> Null, subtype |-> Null],
      [channel |-> "s1", ts |-> "2.5", text |-> "b", user |-> "u1",
       bot_id |-> "B1", subtype |-> Null],
      [channel |-> "s1", ts |-> "2.5", text |-> "b", user |-> "u1",
       bot_id |-> Null, subtype |-> "channel_join"] }

\* what one getChannelMessages call may return for a channel: up to max messages
PagesOf(raw, channelId, max) ==
    UNION {[1..n -> {message \in raw : message.channel = channelId}] : n \in 0..max}

\* parseFloat(ts) * 1000
parseTs(ts) == IF ts = "1.5" THEN 1500 ELSE IF ts = "2.5" THEN 2500 ELSE 0

\* users.info: the names getUserInfo may return for a user (Null: the call failed)
UserNames == {"Ann", Null}

\* TeamsService.storeMessages: the row its upsert creates
teamsRow(message, channel) ==
    [source |-> "teams", sourceId |-> message.id,
     channelId |-> channel.id, channelName |-> channel.name,
     authorId |-> OrElse(message.fromId, "unknown"),
     authorName |-> OrElse(message.fromName, "Unknown"),
     content |-> OrEmpty(message.content), messageType |-> "chat",
     timestamp |-> message.created, projectId |-> NoProject]

\* SlackService.storeMessages: the row its upsert creates
slackRow(message, channel, userName) ==
    [source |-> "slack", sourceId |-> message.ts,
     channelId |-> channel.id, channelName |-> channel.name,
     authorId |-> OrElse(message.user, "unknown"),
     authorName |-> IF message.user = Null THEN "Unknown" ELSE OrElse(userName, "Unknown"),
     content |-> OrEmpty(message.text), messageType |-> "chat",
     timestamp |-> parseTs(message.ts), projectId |-> NoProject]

slackSkipped_Nothing(message) == FALSE

\* if (message.bot_id || message.subtype === 'channel_join') continue
slackSkipped(message) == message.bot_id # Null \/ message.subtype = "channel_join"

----------------------------------------------------------------------------
(* TeamsService.syncAllMessages and SlackService.syncAllMessages, one action *)
(* per await; the upsert is a lookup followed by a write                      *)

NoChannel == [id |-> Null, name |-> Null]

NoRow ==
    [source |-> Null, sourceId |-> Null, channelId |-> Null, channelName |-> Null,
     authorId |-> Null, authorName |-> Null, content |-> Null, messageType |-> Null,
     timestamp |-> 0, projectId |-> NoProject]

Idle == [platform |-> "none", teams |-> <<>>, channels |-> <<>>, cur |-> NoChannel,
         todo |-> <<>>, row |-> NoRow, found |-> "?", total |-> 0, calls |-> 0]

\* the slot after its run has returned or thrown
Ended(run) == [Idle EXCEPT !.calls = run.calls]

\* a slot takes a new call while it has hosted fewer than MaxSyncCalls
Free(r) == syncs[r].platform = "none" /\ syncs[r].calls < MaxSyncCalls

SyncIds == 1..MaxSyncs

SyncFailure(op) == [op |-> op, success |-> FALSE, totalMessages |-> 0]

SyncSuccess(op, total) == [op |-> op, success |-> TRUE, totalMessages |-> total]

Running(r, platform) == syncs[r].platform = platform

\* between two channels: nothing fetched is left to store
BetweenChannels(r) == syncs[r].todo = <<>> /\ syncs[r].found = "?"

\* POST teams/sync: getTeams; fault: the call (or the credential lookup) throws
teamsSyncStart(r, fault) ==
    /\ Free(r)
    /\ IF fault
       THEN /\ response' = SyncFailure("teamsSync")
            /\ syncs' = [syncs EXCEPT ![r].calls = @ + 1]
       ELSE /\ syncs' = [syncs EXCEPT ![r] = [Idle EXCEPT !.platform = "teams",
                                                          !.teams = TeamList,
                                                          !.calls = syncs[r].calls + 1]]
            /\ UNCHANGED response
    /\ UNCHANGED <<messages, recordings, transcriptions, blobs, jobs, retrying, call, nlpVars>>

\* for (const team of teams): getChannels(team.id), outside the inner try
teamsGetChannels(r, fault) ==
    /\ Running(r, "teams")
    /\ BetweenChannels(r)
    /\ syncs[r].channels = <<>>
    /\ syncs[r].teams # <<>>
    /\ IF fault
       THEN /\ response' = SyncFailure("teamsSync")
            /\ syncs' = [syncs EXCEPT ![r] = Ended(@)]
       ELSE /\ syncs' = [syncs EXCEPT ![r].teams = Tail(@),
                                      ![r].channels = ChannelsOf(Head(syncs[r].teams))]
            /\ UNCHANGED response
    /\ UNCHANGED <<messages, recordings, transcriptions, blobs, jobs, retrying, call, nlpVars>>

\* POST slack/sync: getChannels; fault: the call (or the credential lookup) throws
slackSyncStart(r, fault) ==
    /\ Free(r)
    /\ IF fault
       THEN /\ response' = SyncFailure("slackSync")
            /\ syncs' = [syncs EXCEPT ![r].calls = @ + 1]
       ELSE /\ syncs' = [syncs EXCEPT ![r] = [Idle EXCEPT !.platform = "slack",
                                                          !.channels = SlackChannels,
                                                          !.calls = syncs[r].calls + 1]]
            /\ UNCHANGED response
    /\ UNCHANGED <<messages, recordings, transcriptions, blobs, jobs, retrying, call, nlpVars>>

getChannelMessages_FaultAborts(r, fault, page) ==
    /\ ~Running(r, "none")
    /\ BetweenChannels(r)
    /\ syncs[r].channels # <<>>
    /\ page \in PagesOf(IF Running(r, "teams") THEN TeamsRaw ELSE SlackRaw,
                        Head(syncs[r].channels).id, MaxPage)
    /\ LET channel == Head(syncs[r].channels)
           skipped == Running(r, "slack") /\ (channel.id = Null \/ channel.name = Null)
       IN IF fault /\ ~skipped
          THEN /\ syncs' = [syncs EXCEPT ![r] = Ended(@)]
               /\ response' = SyncFailure(IF Running(r, "teams") THEN "teamsSync"
                                          ELSE "slackSync")
          ELSE /\ syncs' = [syncs EXCEPT ![r].channels = Tail(@),
                                         ![r].cur = channel,
                                         ![r].todo = IF skipped THEN <<>> ELSE page]
               /\ UNCHANGED response
    /\ UNCHANGED <<messages, recordings, transcriptions, blobs, jobs, retrying, call, nlpVars>>

\* for (const channel of channels): getChannelMessages inside the inner try; a fault
\* is caught and the channel skipped. Slack skips a channel without id or name.
getChannelMessages(r, fault, page) ==
    /\ ~Running(r, "none")
    /\ BetweenChannels(r)
    /\ syncs[r].channels # <<>>
    /\ page \in PagesOf(IF Running(r, "teams") THEN TeamsRaw ELSE SlackRaw,
                        Head(syncs[r].channels).id, MaxPage)
    /\ LET channel == Head(syncs[r].channels)
           skipped == Running(r, "slack") /\ (channel.id = Null \/ channel.name = Null)
       IN syncs' = [syncs EXCEPT ![r].channels = Tail(@),
                                 ![r].cur = channel,
                                 ![r].todo = IF fault \/ skipped THEN <<>> ELSE page]
    /\ UNCHANGED <<messages, response, recordings, transcriptions, blobs, jobs, retrying, call, nlpVars>>

\* storeMessages, next message: Slack's bot filter and getUserInfo, then the lookup
\* of the upsert
storeMessageFind(r, userName) ==
    /\ ~Running(r, "none")
    /\ syncs[r].todo # <<>>
    /\ syncs[r].found = "?"
    /\ LET message == Head(syncs[r].todo)
           row == IF Running(r, "teams")
                  THEN teamsRow(message, syncs[r].cur)
                  ELSE slackRow(message, syncs[r].cur, userName)
       IN IF Running(r, "slack") /\ slackSkipped(message)
          THEN syncs' = [syncs EXCEPT ![r].todo = Tail(@)]
          ELSE syncs' = [syncs EXCEPT ![r].row = row,
                                      ![r].found = IF HasKey(messages, row.source, row.sourceId)
                                                   THEN "yes" ELSE "no"]
    /\ UNCHANGED <<messages, response, recordings, transcriptions, blobs, jobs, retrying, call, nlpVars>>

\* storeMessages, the write of the upsert; a throw (storeFault, or the unique
\* constraint) is caught per message and the message is not counted
storeMessageWrite(r, storeFault) ==
    /\ ~Running(r, "none")
    /\ syncs[r].found # "?"
    /\ LET written == messageUpsertWrite(messages, syncs[r].found = "yes", syncs[r].row)
           stored == ~storeFault /\ written.ok
       IN /\ messages' = IF stored THEN written.table ELSE messages
          /\ syncs' = [syncs EXCEPT ![r].todo = Tail(@),
                                    ![r].row = NoRow,
                                    ![r].found = "?",
                                    ![r].total = IF stored THEN @ + 1 ELSE @]
    /\ UNCHANGED <<response, recordings, transcriptions, blobs, jobs, retrying, call, nlpVars>>

\* return { success: true, totalMessages }
syncReturn(r) ==
    /\ ~Running(r, "none")
    /\ BetweenChannels(r)
    /\ syncs[r].channels = <<>>
    /\ syncs[r].teams = <<>>
    /\ response' = SyncSuccess(IF Running(r, "teams") THEN "teamsSync" ELSE "slackSync",
                               syncs[r].total)
    /\ syncs' = [syncs EXCEPT ![r] = Ended(@)]
    /\ UNCHANGED <<messages, recordings, transcriptions, blobs, jobs, retrying, call, nlpVars>>

----------------------------------------------------------------------------
(* Webhook deliveries: WebhooksController and WebhooksService *)

MaxItems == 1

Times == {3}

TeamsSecrets == {"secret", Null}

ClientStates == {"secret", Null}

\* resourceData of a change notification
TeamsResources ==
    { [id |-> "t1", channelId |-> "c1", content |-> "w", created |-> 2,
       fromId |-> "u1", fromName |-> "Ann"],
      [id |-> "t2", channelId |-> Null, content |-> Null, created |-> 0,
       fromId |-> Null, fromName |-> Null] }

\* an item without resourceData
NoResource ==
    [id |-> Null, channelId |-> Null, content |-> Null, created |-> 0,
     fromId |-> Null, fromName |-> Null]

TeamsItems ==
    {[changeType |-> "created", resourceData |-> rd] : rd \in TeamsResources \cup {NoResource}}
        \cup {[changeType |-> "updated", resourceData |-> rd] : rd \in TeamsResources}

TeamsNotifications ==
    {[clientState |-> cs, value |-> v] :
        cs \in ClientStates, v \in UNION {[1..n -> TeamsItems] : n \in 0..MaxItems}}

WebhookResponse(op, success) == [op |-> op, success |-> success]

\* handleTeamsMessageCreated: the row its create inserts
teamsWebhookRow(resourceData, now) ==
    [source |-> "teams", sourceId |-> resourceData.id,
     channelId |-> OrElse(resourceData.channelId, "unknown"), channelName |-> "Unknown",
     authorId |-> OrElse(resourceData.fromId, "unknown"),
     authorName |-> OrElse(resourceData.fromName, "Unknown"),
     content |-> OrEmpty(resourceData.content), messageType |-> "chat",
     timestamp |-> IF resourceData.created = 0 THEN now ELSE resourceData.created,
     projectId |-> NoProject]

\* the loop of processTeamsNotification from item i on; the create of item number
\* fault throws, and handleTeamsMessageCreated swallows every throw
RECURSIVE teamsItemsStored(_, _, _, _, _)
teamsItemsStored(table, items, i, fault, now) ==
    IF i > Len(items) THEN table
    ELSE LET item == items[i]
             handled == item.changeType = "created" /\ item.resourceData # NoResource
             created == messageCreate(table, teamsWebhookRow(item.resourceData, now))
         IN teamsItemsStored(IF handled /\ fault # i /\ created.ok THEN created.table ELSE table,
                             items, i + 1, fault, now)

\* POST webhooks/teams without validationToken
handleTeamsWebhook(notification, expectedClientState, fault, now) ==
    /\ IF notification.clientState # expectedClientState
       THEN /\ response' = WebhookResponse("teamsWebhook", FALSE)
            /\ UNCHANGED messages
       ELSE /\ response' = WebhookResponse("teamsWebhook", TRUE)
            /\ messages' = teamsItemsStored(messages, notification.value, 1, fault, now)
    /\ UNCHANGED <<syncs, recordings, transcriptions, blobs, jobs, retrying, call, nlpVars>>

SlackSecrets == {"s", Null}

SlackEvents ==
    { [type |-> "message", subtype |-> Null, ts |-> "1.5", channel |-> "s1",
       user |-> "u1", text |-> "w"],
      [type |-> "message", subtype |-> Null, ts |-> "1.5", channel |-> "s1",
       user |-> "u1", text |-> Null],
      [type |-> "message", subtype |-> "message_changed", ts |-> "1.5", channel |-> "s1",
       user |-> "u1", text |-> "x"],
      [type |-> "reaction_added", subtype |-> Null, ts |-> "2.5", channel |-> "s1",
       user |-> "u1", text |-> Null] }

\* a body without event
NoEvent ==
    [type |-> Null, subtype |-> Null, ts |-> Null, channel |-> Null, user |-> Null,
     text |-> Null]

SlackBodies ==
    {[type |-> "event_callback", timestamp |-> 1, event |-> e] :
        e \in SlackEvents \cup {NoEvent}}

\* 'v0=' + HMAC-SHA256(secret, `v0:${timestamp}:${JSON.stringify(body)}`), kept as a term
slackSignatureOf(secret, body) == <<"v0=", secret, <<"v0", body.timestamp, body>>>>

SlackSignatures(body) == {slackSignatureOf("s", body), <<>>}

\* verifySlackSignature: createHmac throws on a missing secret, a different
\* signature throws 'Invalid Slack signature'
verifySlackSignature(body, signature, slackSigningSecret) ==
    /\ slackSigningSecret # Null
    /\ signature = slackSignatureOf(slackSigningSecret, body)

\* handleSlackMessage: the row its create inserts
slackWebhookRow(message) ==
    [source |-> "slack", sourceId |-> message.ts,
     channelId |-> message.channel, channelName |-> "Unknown",
     authorId |-> message.user, authorName |-> "Unknown",
     content |-> OrEmpty(message.text), messageType |-> "chat",
     timestamp |-> parseTs(message.ts), projectId |-> NoProject]

\* processSlackEvent: a plain message event is stored; handleSlackMessage swallows
\* every throw of its create
slackEventStored(table, body, fault) ==
    IF body.event.type = "message" /\ body.event.subtype = Null
    THEN LET created == messageCreate(table, slackWebhookRow(body.event))
         IN IF ~fault /\ created.ok THEN created.table ELSE table
    ELSE table

\* POST webhooks/slack for a body that is not a url_verification challenge
handleSlackWebhook(body, signature, slackSigningSecret, fault) ==
    /\ IF verifySlackSignature(body, signature, slackSigningSecret)
       THEN /\ response' = WebhookResponse("slackWebhook", TRUE)
            /\ messages' = slackEventStored(messages, body, fault)
       ELSE /\ response' = WebhookResponse("slackWebhook", FALSE)
            /\ UNCHANGED messages
    /\ UNCHANGED <<syncs, recordings, transcriptions, blobs, jobs, retrying, call, nlpVars>>

----------------------------------------------------------------------------
(* The extraction pipeline: NlpService.processMessage, its Bull queue         *)
(* 'nlp-processing' and NlpProcessor                                          *)

\* The primary key of a Message row. Rows are told apart by (source, sourceId), which
\* is unique, so the pair stands for the id.
MessageIdOf(row) == <<row.source, row.sourceId>>

\* the ids processMessage is called with: a stored message and a missing one
MessageIds == {<<"teams", "t1">>, <<"teams", "t9">>}

\* prisma.message.findUnique({ where: { id } }): the set of rows found (none or one)
messageFindUnique(table, messageId) == RowsWithKey(table, messageId[1], messageId[2])

\* prisma.message.update({ where: { id }, data: { projectId } }); throws when no row
messageSetProject(table, messageId, projectId) ==
    IF messageFindUnique(table, messageId) = {}
    THEN [table |-> table, ok |-> FALSE]
    ELSE LET row == CHOOSE r \in messageFindUnique(table, messageId) : TRUE
         IN [table |-> (table (-) SetToBag({row}))
                          (+) SetToBag({[row EXCEPT !.projectId = projectId]}),
             ok |-> TRUE]

\* String.toLowerCase over the project names of the model
Lower(name) ==
    CASE name = "Apollo" -> "apollo"
      [] name = "APOLLO" -> "apollo"
      [] name = "Zeus" -> "zeus"
      [] name = "Uncategorized Tasks" -> "uncategorized tasks"
      [] name = "Uncategorized Requirements" -> "uncategorized requirements"
      [] OTHER -> name

\* prisma.project.findFirst({ where: { name: { equals, mode: 'insensitive' } } }):
\* the id of the first matching row, 0 when there is none
projectFindFirst(table, projectName) ==
    LET matching == {id \in DOMAIN table : Lower(table[id].name) = Lower(projectName)}
    IN IF matching = {} THEN 0 ELSE CHOOSE id \in matching : \A other \in matching : id <= other

\* prisma.project.create
projectCreate(table, name, status) == Append(table, [name |-> name, status |-> status])

\* what the extraction collaborator returns through normalizeNLPResult
NlpResults ==
    { [entities |-> <<>>, projects |-> <<>>, tasks |-> <<>>, requirements |-> <<>>],
      [entities |-> <<"e1", "e2">>, projects |-> <<"Apollo", "Zeus">>, tasks |-> <<>>,
       requirements |-> <<>>],
      [entities |-> <<"e1">>, projects |-> <<"APOLLO">>, tasks |-> <<>>,
       requirements |-> <<"r1">>],
      [entities |-> <<>>, projects |-> <<>>, tasks |-> <<"k1", "k2">>,
       requirements |-> <<>>],
      [entities |-> <<>>, projects |-> <<"Apollo">>, tasks |-> <<"k1">>,
       requirements |-> <<"r1">>] }

NoResultYet == [entities |-> <<>>, projects |-> <<>>, tasks |-> <<>>, requirements |-> <<>>]

\* storeEntities: the row of one entity
entityRow(messageId, entity) == [messageId |-> messageId, entityValue |-> entity]

\* createTasksFromExtraction: the row of one task
taskRow(messageId, projectId, task) ==
    [projectId |-> projectId, title |-> task, status |-> "todo", sourceMessageId |-> messageId]

\* createRequirementsFromExtraction: the row of one requirement
requirementRow(messageId, projectId, req) ==
    [projectId |-> projectId, description |-> req, status |-> "proposed",
     sourceMessageId |-> messageId]

NlpRunIds == 1..MaxNlpRuns

NlpJobIds == 1..MaxNlpJobs

rowCreate_NoDuplicates(table, row) ==
    IF row \in BagToSet(table) THEN table ELSE table (+) SetToBag({row})

\* prisma.<table>.create on a table whose rows are told apart by their content only
rowCreate(table, row) == table (+) SetToBag({row})

\* a free slot; calls counts the processMessage calls the slot has hosted
NoRun == [pc |-> "idle", job |-> 0, messageId |-> <<"", "">>, result |-> NoResultYet,
          i |-> 0, projectId |-> NoProject, found |-> 0, calls |-> 0]

newNlpJob(messageId) == [messageId |-> messageId, state |-> "waiting", attemptsMade |-> 0]

NlpAt(r, pc) == nlpRuns[r].pc = pc

NlpGoto(r, pc) == [nlpRuns EXCEPT ![r].pc = pc]

NlpResponse(op, success, result) == [op |-> op, success |-> success, result |-> result]

\* where processMessage goes after storeEntities
AfterEntities(result) ==
    IF result.tasks # <<>> THEN "tasksFind"
    ELSE IF result.requirements # <<>> THEN "reqsFind"
    ELSE IF result.projects # <<>> THEN "linkFind" ELSE "return"

\* where processMessage goes after createTasksFromExtraction
AfterTasks(result) ==
    IF result.requirements # <<>> THEN "reqsFind"
    ELSE IF result.projects # <<>> THEN "linkFind" ELSE "return"

\* where processMessage goes after createRequirementsFromExtraction
AfterRequirements(result) == IF result.projects # <<>> THEN "linkFind" ELSE "return"

NlpFrame == UNCHANGED <<transVars, call, syncs>>

\* POST nlp/process/:messageId: NlpController.processMessage calls the service itself
processMessageCall(r, messageId) ==
    /\ NlpAt(r, "idle")
    /\ nlpRuns[r].calls < MaxNlpCalls
    /\ nlpRuns' = [nlpRuns EXCEPT ![r] = [NoRun EXCEPT !.pc = "find",
                                                       !.messageId = messageId,
                                                       !.calls = nlpRuns[r].calls + 1]]
    /\ UNCHANGED <<messages, entities, tasks, requirements, projects, nlpJobs>>
    /\ NlpFrame

\* POST nlp/queue/:messageId: queueMessageProcessing; fault: nlpQueue.add throws
queueMessageProcessing(messageId, fault) ==
    /\ Len(nlpJobs) < MaxNlpJobs
    /\ nlpJobs' = IF fault THEN nlpJobs ELSE Append(nlpJobs, newNlpJob(messageId))
    /\ UNCHANGED <<messages, entities, tasks, requirements, projects, nlpRuns>>
    /\ UNCHANGED <<recordings, transcriptions, blobs, jobs, retrying, call, syncs>>
    /\ response' = NlpResponse("queueMessage", ~fault, NoResultYet)

nlpStartJob_SharedWorker(j, r) ==
    /\ j \in DOMAIN nlpJobs
    /\ nlpJobs[j].state = "waiting"
    /\ \A other \in DOMAIN nlpJobs : nlpJobs[other].state # "active"
    /\ ActiveJobs = {}
    /\ NlpAt(r, "idle")
    /\ nlpRuns[r].calls < MaxNlpCalls
    /\ nlpJobs' = [nlpJobs EXCEPT ![j].state = "active"]
    /\ nlpRuns' = [nlpRuns EXCEPT ![r] = [NoRun EXCEPT !.pc = "find", !.job = j,
                                                       !.messageId = nlpJobs[j].messageId,
                                                       !.calls = nlpRuns[r].calls + 1]]
    /\ UNCHANGED <<messages, entities, tasks, requirements, projects>>
    /\ NlpFrame

\* the worker takes a waiting job: handleMessageProcessing calls processMessage
nlpStartJob(j, r) ==
    /\ j \in DOMAIN nlpJobs
    /\ nlpJobs[j].state = "waiting"
    /\ \A other \in DOMAIN nlpJobs : nlpJobs[other].state # "active"
    /\ NlpAt(r, "idle")
    /\ nlpRuns[r].calls < MaxNlpCalls
    /\ nlpJobs' = [nlpJobs EXCEPT ![j].state = "active"]
    /\ nlpRuns' = [nlpRuns EXCEPT ![r] = [NoRun EXCEPT !.pc = "find", !.job = j,
                                                       !.messageId = nlpJobs[j].messageId,
                                                       !.calls = nlpRuns[r].calls + 1]]
    /\ UNCHANGED <<messages, entities, tasks, requirements, projects>>
    /\ NlpFrame

pmFindMessage_IgnoresMissing(r, fault) ==
    /\ NlpAt(r, "find")
    /\ nlpRuns' = NlpGoto(r, IF fault THEN "throw" ELSE "extract")
    /\ UNCHANGED <<messages, entities, tasks, requirements, projects, nlpJobs>>
    /\ NlpFrame

\* processMessage: findUnique, 'Message not found'
pmFindMessage(r, fault) ==
    /\ NlpAt(r, "find")
    /\ nlpRuns' = NlpGoto(r, IF fault \/ messageFindUnique(messages, nlpRuns[r].messageId) = {}
                             THEN "throw" ELSE "extract")
    /\ UNCHANGED <<messages, entities, tasks, requirements, projects, nlpJobs>>
    /\ NlpFrame

\* processMessage: extractEntities; fault: OpenAI not configured, the call raises, no
\* response, or JSON.parse throws
pmExtractEntities(r, fault, result) ==
    /\ NlpAt(r, "extract")
    /\ nlpRuns' = IF fault # "none" THEN NlpGoto(r, "throw")
                  ELSE [nlpRuns EXCEPT ![r].result = result,
                                       ![r].i = 1,
                                       ![r].pc = IF result.entities # <<>> THEN "entities"
                                                 ELSE AfterEntities(result)]
    /\ UNCHANGED <<messages, entities, tasks, requirements, projects, nlpJobs>>
    /\ NlpFrame

\* storeEntities: one iteration; a throw of the create is caught and logged
pmStoreEntity(r, fault) ==
    /\ NlpAt(r, "entities")
    /\ LET run == nlpRuns[r]
           last == run.i = Len(run.result.entities)
       IN /\ entities' = IF fault THEN entities
                         ELSE rowCreate(entities,
                                        entityRow(run.messageId, run.result.entities[run.i]))
          /\ nlpRuns' = [nlpRuns EXCEPT ![r].i = IF last THEN 1 ELSE run.i + 1,
                                        ![r].pc = IF last THEN AfterEntities(run.result)
                                                  ELSE "entities"]
    /\ UNCHANGED <<messages, tasks, requirements, projects, nlpJobs>>
    /\ NlpFrame

\* createTasksFromExtraction / createRequirementsFromExtraction: findUnique before the
\* loop; a missing message returns, a throw leaves processMessage
pmLoadMessage(r, fault) ==
    /\ NlpAt(r, "tasksFind") \/ NlpAt(r, "reqsFind")
    /\ LET run == nlpRuns[r]
           found == messageFindUnique(messages, run.messageId)
           skip == IF run.pc = "tasksFind" THEN AfterTasks(run.result)
                   ELSE AfterRequirements(run.result)
       IN nlpRuns' =
              IF fault THEN NlpGoto(r, "throw")
              ELSE IF found = {} THEN NlpGoto(r, skip)
              ELSE [nlpRuns EXCEPT ![r].projectId = (CHOOSE row \in found : TRUE).projectId,
                                   ![r].i = 1,
                                   ![r].pc = IF run.pc = "tasksFind" THEN "tasks" ELSE "reqs"]
    /\ UNCHANGED <<messages, entities, tasks, requirements, projects, nlpJobs>>
    /\ NlpFrame

StoreFaults == {"none", "project", "update", "row"}

\* the head of one loop iteration of createTasksFromExtraction /
\* createRequirementsFromExtraction: let projectId = message.projectId, read from the
\* message loaded before the loop; without one, project.create then message.update.
\* ok is FALSE when one of the two throws (fault, or the message row is gone).
defaultProject(projectId, messageId, name, status, fault) ==
    IF projectId # NoProject
    THEN [projects |-> projects, messages |-> messages, projectId |-> projectId, ok |-> TRUE]
    ELSE IF fault = "project"
    THEN [projects |-> projects, messages |-> messages, projectId |-> NoProject, ok |-> FALSE]
    ELSE LET created == projectCreate(projects, name, status)
             updated == messageSetProject(messages, messageId, Len(created))
         IN IF fault = "update" \/ ~updated.ok
            THEN [projects |-> created, messages |-> messages, projectId |-> Len(created),
                  ok |-> FALSE]
            ELSE [projects |-> created, messages |-> updated.table,
                  projectId |-> Len(created), ok |-> TRUE]

\* createTasksFromExtraction: one iteration of the loop, its try/catch included
pmCreateTask(r, fault) ==
    /\ NlpAt(r, "tasks")
    /\ LET run == nlpRuns[r]
           last == run.i = Len(run.result.tasks)
           project == defaultProject(run.projectId, run.messageId, "Uncategorized Tasks",
                                     "in-progress", fault)
       IN /\ projects' = project.projects
          /\ messages' = project.messages
          /\ tasks' = IF project.ok /\ fault # "row"
                      THEN rowCreate(tasks, taskRow(run.messageId, project.projectId,
                                                    run.result.tasks[run.i]))
                      ELSE tasks
          /\ nlpRuns' = [nlpRuns EXCEPT ![r].i = IF last THEN 1 ELSE run.i + 1,
                                        ![r].pc = IF last THEN AfterTasks(run.result)
                                                  ELSE "tasks"]
    /\ UNCHANGED <<entities, requirements, nlpJobs>>
    /\ NlpFrame

\* createRequirementsFromExtraction: one iteration of the loop, its try/catch included
pmCreateRequirement(r, fault) ==
    /\ NlpAt(r, "reqs")
    /\ LET run == nlpRuns[r]
           last == run.i = Len(run.result.requirements)
           project == defaultProject(run.projectId, run.messageId,
                                     "Uncategorized Requirements", "planning", fault)
       IN /\ projects' = project.projects
          /\ messages' = project.messages
          /\ requirements' = IF project.ok /\ fault # "row"
                             THEN rowCreate(requirements,
                                            requirementRow(run.messageId, project.projectId,
                                                           run.result.requirements[run.i]))
                             ELSE requirements
          /\ nlpRuns' = [nlpRuns EXCEPT ![r].i = IF last THEN 1 ELSE run.i + 1,
                                        ![r].pc = IF last THEN AfterRequirements(run.result)
                                                  ELSE "reqs"]
    /\ UNCHANGED <<entities, tasks, nlpJobs>>
    /\ NlpFrame

\* linkMessageToProject(messageId, result.projects[0]): findFirst by name, ignoring case;
\* a throw is caught and logged
pmLinkFind(r, fault) ==
    /\ NlpAt(r, "linkFind")
    /\ nlpRuns' = IF fault THEN NlpGoto(r, "return")
                  ELSE [nlpRuns EXCEPT
                            ![r].found = projectFindFirst(projects, nlpRuns[r].result.projects[1]),
                            ![r].pc = "linkWrite"]
    /\ UNCHANGED <<messages, entities, tasks, requirements, projects, nlpJobs>>
    /\ NlpFrame

\* linkMessageToProject: project.create when none was found, then message.update; a
\* throw of either is caught and logged
pmLinkWrite(r, fault) ==
    /\ NlpAt(r, "linkWrite")
    /\ fault \in {"none", "project", "update"}
    /\ LET run == nlpRuns[r]
           created == IF run.found # 0 THEN projects
                      ELSE projectCreate(projects, run.result.projects[1], "in-progress")
           projectId == IF run.found # 0 THEN run.found ELSE Len(created)
           updated == messageSetProject(messages, run.messageId, projectId)
       IN /\ projects' = IF fault = "project" THEN projects ELSE created
          /\ messages' = IF fault = "none" /\ updated.ok THEN updated.table ELSE messages
    /\ nlpRuns' = NlpGoto(r, "return")
    /\ UNCHANGED <<entities, tasks, requirements, nlpJobs>>
    /\ NlpFrame

\* processMessage returns result. A direct call answers { success: true, result }; a
\* job completes and is removed from the queue (removeOnComplete: true).
pmReturn(r) ==
    /\ NlpAt(r, "return")
    /\ IF nlpRuns[r].job = 0
       THEN /\ response' = NlpResponse("processMessage", TRUE, nlpRuns[r].result)
            /\ UNCHANGED nlpJobs
       ELSE /\ nlpJobs' = [nlpJobs EXCEPT ![nlpRuns[r].job].state = "removed"]
            /\ UNCHANGED response
    /\ nlpRuns' = [nlpRuns EXCEPT ![r] = [NoRun EXCEPT !.calls = nlpRuns[r].calls]]
    /\ UNCHANGED <<messages, entities, tasks, requirements, projects>>
    /\ UNCHANGED <<recordings, transcriptions, blobs, jobs, retrying, call, syncs>>

\* processMessage rethrows. A direct call answers { success: false, error }; a job has
\* used one attempt: it is delayed for backoff while attempts remain, failed otherwise
\* (removeOnFail: false keeps it in the queue).
pmThrow(r) ==
    /\ NlpAt(r, "throw")
    /\ IF nlpRuns[r].job = 0
       THEN /\ response' = NlpResponse("processMessage", FALSE, NoResultYet)
            /\ UNCHANGED nlpJobs
       ELSE /\ LET j == nlpRuns[r].job
                   made == nlpJobs[j].attemptsMade + 1
               IN nlpJobs' = [nlpJobs EXCEPT ![j].attemptsMade = made,
                                             ![j].state = IF made < ProcessMessageAttempts
                                                          THEN "delayed" ELSE "failed"]
            /\ UNCHANGED response
    /\ nlpRuns' = [nlpRuns EXCEPT ![r] = [NoRun EXCEPT !.calls = nlpRuns[r].calls]]
    /\ UNCHANGED <<messages, entities, tasks, requirements, projects>>
    /\ UNCHANGED <<recordings, transcriptions, blobs, jobs, retrying, call, syncs>>

\* the backoff delay of a delayed job has passed
nlpBackoffElapsed(j) ==
    /\ j \in DOMAIN nlpJobs
    /\ nlpJobs[j].state = "delayed"
    /\ nlpJobs' = [nlpJobs EXCEPT ![j].state = "waiting"]
    /\ UNCHANGED <<messages, entities, tasks, requirements, projects, nlpRuns>>
    /\ NlpFrame

ExtractFaults == {"none", "notConfigured", "api", "unparsable"}

----------------------------------------------------------------------------
(* The transcription pipeline *)

Faults == {"none", "blob", "queue"}
JobIds == 1..MaxJobs

NoCall == [session |-> [segments |-> <<>>, end |-> "notConfigured"],
           result |-> NoResult, done |-> FALSE]

InitTranscription ==
    /\ recordings = <<>>
    /\ transcriptions = <<>>
    /\ blobs = [k \in StorageKeys |-> NoBytes]
    /\ jobs = <<>>
    /\ retrying = [id \in RecordingIds |-> 0]
    /\ response = NoResponse
    /\ call = NoCall
    /\ messages = EmptyBag
    /\ syncs = [r \in 1..MaxSyncs |-> Idle]
    /\ entities = EmptyBag
    /\ tasks = EmptyBag
    /\ requirements = EmptyBag
    /\ projects = <<>>
    /\ nlpJobs = <<>>
    /\ nlpRuns = [r \in NlpRunIds |-> NoRun]

NextTranscription ==
    \/ \E j \in JobIds : startJob(j)
    \/ \E j \in JobIds, f \in BOOLEAN : setProcessing(j, f)
    \/ \E j \in JobIds, f \in BOOLEAN, s \in WorkerSessions : downloadAndTranscribe(j, f, s)
    \/ \E j \in JobIds, f \in BOOLEAN : storeTranscription(j, f)
    \/ \E j \in JobIds, f \in BOOLEAN : setCompleted(j, f)
    \/ \E j \in JobIds : catchFailed(j)
    \/ \E j \in JobIds : jobCompleted(j)
    \/ \E j \in JobIds : jobFailed(j)
    \/ \E j \in JobIds : backoffElapsed(j)
    \/ \E s \in Sources, i \in RecSourceIds, b \in Bytes, m \in MimeTypes, f \in Faults :
           uploadAndProcessRecording(s, i, b, m, f)
    \/ \E id \in RecordingIds, f \in {"none", "queue"} : queueTranscription(id, f)
    \/ \E id \in RecordingIds : retryTranscriptionCheck(id)
    \/ \E id \in RecordingIds, f \in {"none", "queue"} : retryTranscriptionQueue(id, f)

SpecTranscription == InitTranscription /\ [][NextTranscription]_vars

----------------------------------------------------------------------------
(* The transcription queue consumed by several instances of the application: *)
(* each instance runs one TranscriptionProcessor, so jobs of one recording   *)
(* run side by side                                                           *)

\* The queue hands a waiting job to the free worker of any instance
startJobOnInstance(j) ==
    /\ j \in DOMAIN jobs
    /\ jobs[j].state = "waiting"
    /\ Cardinality(ActiveJobs) < MaxInstances * MaxWorkers
    /\ jobs' = [jobs EXCEPT ![j].state = "active", ![j].pc = "start"]
    /\ UNCHANGED <<recordings, transcriptions, blobs, retrying, response, call, syncVars, nlpVars>>

\* the sessions the concurrent workers meet: silence, stopped or canceled
ConcurrentSessions == {s \in WorkerSessions : s.segments = <<>>}

NextConcurrent ==
    \/ \E j \in JobIds : startJobOnInstance(j)
    \/ \E j \in JobIds, f \in BOOLEAN : setProcessing(j, f)
    \/ \E j \in JobIds, s \in ConcurrentSessions : downloadAndTranscribe(j, FALSE, s)
    \/ \E j \in JobIds, f \in BOOLEAN : storeTranscription(j, f)
    \/ \E j \in JobIds, f \in BOOLEAN : setCompleted(j, f)
    \/ \E j \in JobIds : catchFailed(j)
    \/ \E j \in JobIds : jobCompleted(j)
    \/ \E j \in JobIds : jobFailed(j)
    \/ \E j \in JobIds : backoffElapsed(j)
    \/ \E s \in Sources, i \in RecSourceIds, b \in Bytes, m \in MimeTypes,
          f \in {"none", "queue"} : uploadAndProcessRecording(s, i, b, m, f)
    \/ \E id \in RecordingIds, f \in {"none", "queue"} : queueTranscription(id, f)
    \/ \E id \in RecordingIds : retryTranscriptionCheck(id)
    \/ \E id \in RecordingIds, f \in {"none", "queue"} : retryTranscriptionQueue(id, f)

SpecConcurrent == InitTranscription /\ [][NextConcurrent]_vars

----------------------------------------------------------------------------
(* Pure form of one whole sync: no fault, nothing interleaved *)

\* TeamsService.storeMessages over one page
RECURSIVE teamsStoreMessages(_, _, _)
teamsStoreMessages(table, page, channel) ==
    IF page = <<>> THEN table
    ELSE teamsStoreMessages(messageUpsert(table, teamsRow(Head(page), channel)).table,
                            Tail(page), channel)

\* SlackService.storeMessages over one page
RECURSIVE slackStoreMessages(_, _, _, _)
slackStoreMessages(table, page, channel, userName) ==
    IF page = <<>> THEN table
    ELSE slackStoreMessages(
             IF slackSkipped(Head(page)) THEN table
             ELSE messageUpsert(table, slackRow(Head(page), channel, userName)).table,
             Tail(page), channel, userName)

RECURSIVE teamsSyncChannels(_, _, _)
teamsSyncChannels(table, channels, content) ==
    IF channels = <<>> THEN table
    ELSE teamsSyncChannels(teamsStoreMessages(table, content[Head(channels).id], Head(channels)),
                           Tail(channels), content)

RECURSIVE teamsSyncTeams(_, _, _)
teamsSyncTeams(table, teams, content) ==
    IF teams = <<>> THEN table
    ELSE teamsSyncTeams(teamsSyncChannels(table, ChannelsOf(Head(teams)), content),
                        Tail(teams), content)

\* TeamsService.syncAllMessages when the platform holds content: channel id -> page
teamsSyncAllMessages(table, content) == teamsSyncTeams(table, TeamList, content)

RECURSIVE slackSyncChannels(_, _, _, _)
slackSyncChannels(table, channels, content, userName) ==
    IF channels = <<>> THEN table
    ELSE slackSyncChannels(
             IF Head(channels).id = Null \/ Head(channels).name = Null THEN table
             ELSE slackStoreMessages(table, content[Head(channels).id], Head(channels), userName),
             Tail(channels), content, userName)

\* SlackService.syncAllMessages when the platform holds content: channel id -> page
slackSyncAllMessages(table, content, userName) ==
    slackSyncChannels(table, SlackChannels, content, userName)

TeamsContents ==
    [c1 : PagesOf(TeamsRaw, "c1", MaxContent), c2 : PagesOf(TeamsRaw, "c2", MaxContent)]

SlackContents ==
    [s1 : PagesOf(SlackRaw, "s1", MaxContent), s2 : PagesOf(SlackRaw, "s2", MaxContent)]

----------------------------------------------------------------------------
(* Message ingestion: sync runs of both platforms interleaved with webhooks *)

InitSync ==
    /\ recordings = <<>>
    /\ transcriptions = <<>>
    /\ blobs = [k \in StorageKeys |-> NoBytes]
    /\ jobs = <<>>
    /\ retrying = [id \in RecordingIds |-> 0]
    /\ response = NoResponse
    /\ call = NoCall
    /\ messages = EmptyBag
    /\ syncs = [r \in SyncIds |-> Idle]
    /\ entities = EmptyBag
    /\ tasks = EmptyBag
    /\ requirements = EmptyBag
    /\ projects = <<>>
    /\ nlpJobs = <<>>
    /\ nlpRuns = [r \in NlpRunIds |-> NoRun]

NextSync ==
    \/ \E r \in SyncIds, f \in BOOLEAN : teamsSyncStart(r, f)
    \/ \E r \in SyncIds, f \in BOOLEAN : teamsGetChannels(r, f)
    \/ \E r \in SyncIds, f \in BOOLEAN : slackSyncStart(r, f)
    \/ \E r \in SyncIds, f \in BOOLEAN, c \in {"c1", "c2", "s1", "s2"} :
           \E page \in PagesOf(TeamsRaw, c, MaxPage) \cup PagesOf(SlackRaw, c, MaxPage) :
               getChannelMessages(r, f, page)
    \/ \E r \in SyncIds, n \in UserNames : storeMessageFind(r, n)
    \/ \E r \in SyncIds, f \in BOOLEAN : storeMessageWrite(r, f)
    \/ \E r \in SyncIds : syncReturn(r)
    \/ \E n \in TeamsNotifications, secret \in TeamsSecrets, now \in Times :
           \E f \in (IF n.clientState = secret THEN 0..Len(n.value) ELSE {0}) :
               handleTeamsWebhook(n, secret, f, now)
    \/ \E b \in SlackBodies, secret \in SlackSecrets :
           \E sig \in SlackSignatures(b) :
               \E f \in (IF verifySlackSignature(b, sig, secret) THEN BOOLEAN ELSE {FALSE}) :
                   handleSlackWebhook(b, sig, secret, f)

SpecSync == InitSync /\ [][NextSync]_vars

----------------------------------------------------------------------------
(* Whole sync calls run back to back: each call runs to its return before the *)
(* next one starts                                                             *)

MaxRuns == 2

NoSyncCall == [platform |-> "none", content |-> <<>>, userName |-> Null, runs |-> 0]

\* the last call was a sync of this platform over this platform input
SameCall(platform, content, userName) ==
    /\ call.platform = platform
    /\ call.content = content
    /\ call.userName = userName

\* number of consecutive runs over the same input, counted up to MaxRuns
RunsAfter(platform, content, userName) ==
    IF ~SameCall(platform, content, userName) THEN 1
    ELSE IF call.runs < MaxRuns THEN call.runs + 1 ELSE MaxRuns

RECURSIVE slackStoredCount(_)
slackStoredCount(page) ==
    IF page = <<>> THEN 0
    ELSE (IF slackSkipped(Head(page)) THEN 0 ELSE 1) + slackStoredCount(Tail(page))

\* TeamsService.syncAllMessages from call to return
teamsSyncAllMessagesCall(content) ==
    /\ messages' = teamsSyncAllMessages(messages, content)
    /\ response' = SyncSuccess("teamsSync", Len(content.c1) + Len(content.c2))
    /\ call' = [platform |-> "teams", content |-> content, userName |-> Null,
                runs |-> RunsAfter("teams", content, Null)]
    /\ UNCHANGED <<syncs, recordings, transcriptions, blobs, jobs, retrying, nlpVars>>

\* SlackService.syncAllMessages from call to return
slackSyncAllMessagesCall(content, userName) ==
    /\ messages' = slackSyncAllMessages(messages, content, userName)
    /\ response' = SyncSuccess("slackSync", slackStoredCount(content.s1))
    /\ call' = [platform |-> "slack", content |-> content, userName |-> userName,
                runs |-> RunsAfter("slack", content, userName)]
    /\ UNCHANGED <<syncs, recordings, transcriptions, blobs, jobs, retrying, nlpVars>>

InitSyncTwice ==
    /\ recordings = <<>>
    /\ transcriptions = <<>>
    /\ blobs = [k \in StorageKeys |-> NoBytes]
    /\ jobs = <<>>
    /\ retrying = [id \in RecordingIds |-> 0]
    /\ response = NoResponse
    /\ call = NoSyncCall
    /\ messages = EmptyBag
    /\ syncs = [r \in SyncIds |-> Idle]
    /\ entities = EmptyBag
    /\ tasks = EmptyBag
    /\ requirements = EmptyBag
    /\ projects = <<>>
    /\ nlpJobs = <<>>
    /\ nlpRuns = [r \in NlpRunIds |-> NoRun]

NextSyncTwice ==
    \/ \E content \in TeamsContents : teamsSyncAllMessagesCall(content)
    \/ \E content \in SlackContents, n \in UserNames : slackSyncAllMessagesCall(content, n)

SpecSyncTwice == InitSyncTwice /\ [][NextSyncTwice]_vars

----------------------------------------------------------------------------
(* Listing the messages of a channel that holds more than one request returns *)

\* getChannelMessages(teamId, channelId, limit = 50): the size of one request, scaled
\* down from 50
TeamsLimit == 2

\* getChannelMessages(channelId, limit = 100): the size of one request, scaled down
\* from 100
SlackLimit == 3

\* the numbers of messages a channel may hold: none, one, a full request, one more
HeldSizes(limit) == {0, 1, limit, limit + 1}

Min(a, b) == IF a < b THEN a ELSE b

\* the id of message number i of a channel
HeldId(channelId, i) == channelId \o "-" \o ToString(i)

\* the n messages a Teams channel holds, in the order the platform lists them
TeamsHeld(channelId, n) ==
    [i \in 1..n |-> [channel |-> channelId, id |-> HeldId(channelId, i), content |-> "a",
                     created |-> 1, fromId |-> "u1", fromName |-> "Ann"]]

\* the n messages a Slack conversation holds, none of a bot
SlackHeld(channelId, n) ==
    [i \in 1..n |-> [channel |-> channelId, ts |-> HeldId(channelId, i), text |-> "a",
                     user |-> "u1", bot_id |-> Null, subtype |-> Null]]

\* TeamsService.getChannelMessages: client.api(...).top(limit).get() and response.value;
\* the @odata.nextLink of the response is not followed
teamsGetChannelMessages(held, limit) == SubSeq(held, 1, Min(Len(held), limit))

\* SlackService.getChannelMessages: conversations.history({ channel, limit }) and
\* response.messages; response_metadata.next_cursor is not followed
slackGetChannelMessages(held, limit) == SubSeq(held, 1, Min(Len(held), limit))

NoListingCall == [platform |-> "none", held |-> <<>>]

\* TeamsService.syncAllMessages from call to return over channels holding held[c] messages
teamsSyncHeldCall(held) ==
    LET content == [c \in DOMAIN held |->
                        teamsGetChannelMessages(TeamsHeld(c, held[c]), TeamsLimit)]
    IN /\ messages' = teamsSyncAllMessages(messages, content)
       /\ response' = SyncSuccess("teamsSync", Len(content.c1) + Len(content.c2))
       /\ call' = [platform |-> "teams", held |-> held]
       /\ UNCHANGED <<syncs, recordings, transcriptions, blobs, jobs, retrying, nlpVars>>

\* SlackService.syncAllMessages from call to return over conversations holding held[c]
\* messages
slackSyncHeldCall(held, userName) ==
    LET content == [c \in DOMAIN held |->
                        slackGetChannelMessages(SlackHeld(c, held[c]), SlackLimit)]
    IN /\ messages' = slackSyncAllMessages(messages, content, userName)
       /\ response' = SyncSuccess("slackSync", slackStoredCount(content.s1))
       /\ call' = [platform |-> "slack", held |-> held]
       /\ UNCHANGED <<syncs, recordings, transcriptions, blobs, jobs, retrying, nlpVars>>

InitListing ==
    /\ recordings = <<>>
    /\ transcriptions = <<>>
    /\ blobs = [k \in StorageKeys |-> NoBytes]
    /\ jobs = <<>>
    /\ retrying = [id \in RecordingIds |-> 0]
    /\ response = NoResponse
    /\ call = NoListingCall
    /\ messages = EmptyBag
    /\ syncs = [r \in SyncIds |-> Idle]
    /\ entities = EmptyBag
    /\ tasks = EmptyBag
    /\ requirements = EmptyBag
    /\ projects = <<>>
    /\ nlpJobs = <<>>
    /\ nlpRuns = [r \in NlpRunIds |-> NoRun]

NextListing ==
    \/ \E held \in [{"c1", "c2"} -> HeldSizes(TeamsLimit)] : teamsSyncHeldCall(held)
    \/ \E held \in [{"s1"} -> HeldSizes(SlackLimit)], n \in UserNames :
           slackSyncHeldCall(held @@ [c \in {"s2"} |-> 0], n)

SpecListing == InitListing /\ [][NextListing]_vars

----------------------------------------------------------------------------
(* The credential of a sync call: getActiveIntegration, getGraphClient and     *)
(* getSlackClient in front of a whole syncAllMessages call                     *)

MaxIntegrations == 2

\* new Date(), in minutes
Now == 1

\* expiresAt of an integration row: passed, within the refresh window, far
ExpiryTimes == {0, 3, 10}

\* integration.expiresAt.getTime() - 5 * 60 * 1000
RefreshMargin == 5

\* rows that are told apart by what the two lookups read: an inactive row of any expiry
\* is the same to both
IntegrationRows ==
    [platform : {"teams", "slack"}, isActive : {TRUE}, expiresAt : ExpiryTimes]
        \cup [platform : {"teams", "slack"}, isActive : {FALSE}, expiresAt : {10}]

\* the Integration table in the order of createdAt
IntegrationTables == UNION {[1..n -> IntegrationRows] : n \in 0..MaxIntegrations}

NoIntegration == [platform |-> "none", isActive |-> FALSE, expiresAt |-> 0]

\* findFirst over the rows of matching, orderBy createdAt desc
RECURSIVE integrationFindFirst(_, _)
integrationFindFirst(table, matching) ==
    IF table = <<>> THEN NoIntegration
    ELSE IF matching[Len(table)] THEN table[Len(table)]
    ELSE integrationFindFirst(SubSeq(table, 1, Len(table) - 1), matching)

teamsGetActiveIntegration_IgnoresExpiry(table, now) ==
    integrationFindFirst(table,
        [i \in DOMAIN table |-> table[i].platform = "teams" /\ table[i].isActive])

\* TeamsService.getActiveIntegration: platform 'teams', isActive, expiresAt > new Date()
teamsGetActiveIntegration(table, now) ==
    integrationFindFirst(table,
        [i \in DOMAIN table |-> /\ table[i].platform = "teams"
                                /\ table[i].isActive
                                /\ table[i].expiresAt > now])

\* SlackService.getActiveIntegration: platform 'slack', isActive
slackGetActiveIntegration(table) ==
    integrationFindFirst(table,
        [i \in DOMAIN table |-> table[i].platform = "slack" /\ table[i].isActive])

NoCredentialCall == [platform |-> "none", integrations |-> <<>>, contacted |-> FALSE]

\* POST teams/sync: getGraphClient throws without an integration and refreshes a token
\* that is about to expire; refreshFault: the token endpoint refuses
teamsSyncEndpoint(integrations, now, refreshFault, content) ==
    LET integration == teamsGetActiveIntegration(integrations, now)
        refresh == now > integration.expiresAt - RefreshMargin
    IN /\ IF integration = NoIntegration \/ (refresh /\ refreshFault)
          THEN /\ response' = SyncFailure("teamsSync")
               /\ UNCHANGED messages
          ELSE /\ response' = SyncSuccess("teamsSync", Len(content.c1) + Len(content.c2))
               /\ messages' = teamsSyncAllMessages(messages, content)
       /\ call' = [platform |-> "teams", integrations |-> integrations,
                   contacted |-> integration # NoIntegration]
       /\ UNCHANGED <<syncs, recordings, transcriptions, blobs, jobs, retrying, nlpVars>>

\* POST slack/sync: getSlackClient throws without an integration
slackSyncEndpoint(integrations, content, userName) ==
    LET integration == slackGetActiveIntegration(integrations)
    IN /\ IF integration = NoIntegration
          THEN /\ response' = SyncFailure("slackSync")
               /\ UNCHANGED messages
          ELSE /\ response' = SyncSuccess("slackSync", slackStoredCount(content.s1))
               /\ messages' = slackSyncAllMessages(messages, content, userName)
       /\ call' = [platform |-> "slack", integrations |-> integrations,
                   contacted |-> integration # NoIntegration]
       /\ UNCHANGED <<syncs, recordings, transcriptions, blobs, jobs, retrying, nlpVars>>

InitCredential ==
    /\ recordings = <<>>
    /\ transcriptions = <<>>
    /\ blobs = [k \in StorageKeys |-> NoBytes]
    /\ jobs = <<>>
    /\ retrying = [id \in RecordingIds |-> 0]
    /\ response = NoResponse
    /\ call = NoCredentialCall
    /\ messages = EmptyBag
    /\ syncs = [r \in SyncIds |-> Idle]
    /\ entities = EmptyBag
    /\ tasks = EmptyBag
    /\ requirements = EmptyBag
    /\ projects = <<>>
    /\ nlpJobs = <<>>
    /\ nlpRuns = [r \in NlpRunIds |-> NoRun]

NextCredential ==
    \/ \E integrations \in IntegrationTables, f \in BOOLEAN :
           \E content \in [c1 : PagesOf(TeamsRaw, "c1", MaxPage),
                           c2 : PagesOf(TeamsRaw, "c2", MaxPage)] :
               teamsSyncEndpoint(integrations, Now, f, content)
    \/ \E integrations \in IntegrationTables, n \in UserNames :
           \E content \in [s1 : PagesOf(SlackRaw, "s1", MaxPage),
                           s2 : PagesOf(SlackRaw, "s2", MaxPage)] :
               slackSyncEndpoint(integrations, content, n)

SpecCredential == InitCredential /\ [][NextCredential]_vars

----------------------------------------------------------------------------
(* The extraction pipeline on its own: direct calls and queued jobs *)

\* the Message table holds message t1 of channel c1 as a sync stored it
InitNlp ==
    /\ recordings = <<>>
    /\ transcriptions = <<>>
    /\ blobs = [k \in StorageKeys |-> NoBytes]
    /\ jobs = <<>>
    /\ retrying = [id \in RecordingIds |-> 0]
    /\ response = NoResponse
    /\ call = NoCall
    /\ messages \in {teamsStoreMessages(EmptyBag, <<message>>, ChannelsOf("T1")[1]) :
                        message \in {m \in TeamsRaw : m.id = "t1" /\ m.content = "a"}}
    /\ syncs = [r \in SyncIds |-> Idle]
    /\ entities = EmptyBag
    /\ tasks = EmptyBag
    /\ requirements = EmptyBag
    /\ projects = <<>>
    /\ nlpJobs = <<>>
    /\ nlpRuns = [r \in NlpRunIds |-> NoRun]

NextNlp ==
    \/ \E r \in NlpRunIds, id \in MessageIds : processMessageCall(r, id)
    \/ \E id \in MessageIds, f \in BOOLEAN : queueMessageProcessing(id, f)
    \/ \E j \in NlpJobIds, r \in NlpRunIds : nlpStartJob(j, r)
    \/ \E r \in NlpRunIds, f \in BOOLEAN : pmFindMessage(r, f)
    \/ \E r \in NlpRunIds, f \in ExtractFaults, result \in NlpResults :
           pmExtractEntities(r, f, result)
    \/ \E r \in NlpRunIds, f \in BOOLEAN : pmStoreEntity(r, f)
    \/ \E r \in NlpRunIds, f \in BOOLEAN : pmLoadMessage(r, f)
    \/ \E r \in NlpRunIds, f \in StoreFaults : pmCreateTask(r, f)
    \/ \E r \in NlpRunIds, f \in StoreFaults : pmCreateRequirement(r, f)
    \/ \E r \in NlpRunIds, f \in BOOLEAN : pmLinkFind(r, f)
    \/ \E r \in NlpRunIds, f \in StoreFaults : pmLinkWrite(r, f)
    \/ \E r \in NlpRunIds : pmReturn(r)
    \/ \E r \in NlpRunIds : pmThrow(r)
    \/ \E j \in NlpJobIds : nlpBackoffElapsed(j)

SpecNlp == InitNlp /\ [][NextNlp]_vars

----------------------------------------------------------------------------
(* processMessage run again and again on one message: no call fails and the   *)
(* extraction returns the same entities every time                            *)

RerunMessage == <<"teams", "t1">>

RerunResults == {result \in NlpResults : result.entities = <<"e1", "e2">>}

NextRerun ==
    \/ \E r \in NlpRunIds : processMessageCall(r, RerunMessage)
    \/ queueMessageProcessing(RerunMessage, FALSE)
    \/ \E j \in NlpJobIds, r \in NlpRunIds : nlpStartJob(j, r)
    \/ \E r \in NlpRunIds : pmFindMessage(r, FALSE)
    \/ \E r \in NlpRunIds, result \in RerunResults : pmExtractEntities(r, "none", result)
    \/ \E r \in NlpRunIds : pmStoreEntity(r, FALSE)
    \/ \E r \in NlpRunIds : pmLinkFind(r, FALSE)
    \/ \E r \in NlpRunIds : pmLinkWrite(r, "none")
    \/ \E r \in NlpRunIds : pmReturn(r)

SpecRerun == InitNlp /\ [][NextRerun]_vars

----------------------------------------------------------------------------
(* Sync runs over a store whose rows the extraction pipeline has linked to a  *)
(* project                                                                    *)

\* the store after a sync of both platforms and a linkMessageToProject of each message
LinkedTable ==
    LET synced == slackStoreMessages(
                      teamsStoreMessages(EmptyBag,
                                         <<CHOOSE m \in TeamsRaw : m.id = "t1" /\ m.content = "a">>,
                                         ChannelsOf("T1")[1]),
                      <<CHOOSE m \in SlackRaw : ~slackSkipped(m)>>, SlackChannels[1], "Ann")
    IN messageSetProject(messageSetProject(synced, <<"teams", "t1">>, 1).table,
                         <<"slack", "1.5">>, 1).table

InitReplay ==
    /\ recordings = <<>>
    /\ transcriptions = <<>>
    /\ blobs = [k \in StorageKeys |-> NoBytes]
    /\ jobs = <<>>
    /\ retrying = [id \in RecordingIds |-> 0]
    /\ response = NoResponse
    /\ call = NoCall
    /\ messages = LinkedTable
    /\ syncs = [r \in SyncIds |-> Idle]
    /\ entities = EmptyBag
    /\ tasks = EmptyBag
    /\ requirements = EmptyBag
    /\ projects = projectCreate(<<>>, "Apollo", "in-progress")
    /\ nlpJobs = <<>>
    /\ nlpRuns = [r \in NlpRunIds |-> NoRun]

NextReplay ==
    \/ \E r \in SyncIds, f \in BOOLEAN : teamsSyncStart(r, f)
    \/ \E r \in SyncIds, f \in BOOLEAN : teamsGetChannels(r, f)
    \/ \E r \in SyncIds, f \in BOOLEAN : slackSyncStart(r, f)
    \/ \E r \in SyncIds, f \in BOOLEAN, c \in {"c1", "c2", "s1", "s2"} :
           \E page \in PagesOf(TeamsRaw, c, MaxPage) \cup PagesOf(SlackRaw, c, MaxPage) :
               getChannelMessages(r, f, page)
    \/ \E r \in SyncIds, n \in UserNames : storeMessageFind(r, n)
    \/ \E r \in SyncIds, f \in BOOLEAN : storeMessageWrite(r, f)
    \/ \E r \in SyncIds : syncReturn(r)

SpecReplay == InitReplay /\ [][NextReplay]_vars

----------------------------------------------------------------------------
(* Several uploads, and the bytes processTranscription downloads for each      *)
(* recording                                                                   *)

MaxUploads == 2

RoundTripSourceIds == {"rec-1", "rec-2"}

RoundTripMimeTypes == {"audio/wav", "audio/mpeg"}

RoundTripKeys ==
    {generateRecordingKey(s, i, getExtensionFromMimeType(m)) :
        s \in Sources, i \in RoundTripSourceIds, m \in RoundTripMimeTypes}

\* uploadAndProcessRecording up to its createRecording: uploadFile puts the bytes under
\* the generated key, createRecording inserts the row; call keeps the bytes each
\* recording was uploaded with
uploadRecording(source, sourceId, audioBuffer, contentType) ==
    LET key == generateRecordingKey(source, sourceId, getExtensionFromMimeType(contentType))
    IN /\ Len(recordings) < MaxUploads
       /\ blobs' = [blobs EXCEPT ![key] = audioBuffer]
       /\ recordings' = Append(recordings, createRecording(source, sourceId, uploadFileUrl(key)))
       /\ call' = Append(call, audioBuffer)
       /\ UNCHANGED <<transcriptions, jobs, retrying, response, syncVars, nlpVars>>

\* processTranscription: findUnique, downloadFile(extractStorageKey(...)); the bytes are
\* what transcribeAudio is called with
downloadRecording(recordingId) ==
    /\ recordingId \in DOMAIN recordings
    /\ response' = [op |-> "download", id |-> recordingId,
                    audioBuffer |-> blobs[extractStorageKey(recordings[recordingId].fileUrl)]]
    /\ UNCHANGED <<recordings, transcriptions, blobs, jobs, retrying, call, syncVars, nlpVars>>

InitRoundTrip ==
    /\ recordings = <<>>
    /\ transcriptions = <<>>
    /\ blobs = [k \in RoundTripKeys |-> NoBytes]
    /\ jobs = <<>>
    /\ retrying = [id \in RecordingIds |-> 0]
    /\ response = [op |-> "none", id |-> 0, audioBuffer |-> NoBytes]
    /\ call = <<>>
    /\ messages = EmptyBag
    /\ syncs = [r \in SyncIds |-> Idle]
    /\ entities = EmptyBag
    /\ tasks = EmptyBag
    /\ requirements = EmptyBag
    /\ projects = <<>>
    /\ nlpJobs = <<>>
    /\ nlpRuns = [r \in NlpRunIds |-> NoRun]

NextRoundTrip ==
    \/ \E s \in Sources, i \in RoundTripSourceIds, b \in Bytes, m \in RoundTripMimeTypes :
           uploadRecording(s, i, b, m)
    \/ \E id \in 1..MaxUploads : downloadRecording(id)

SpecRoundTrip == InitRoundTrip /\ [][NextRoundTrip]_vars

----------------------------------------------------------------------------
(* Both queues with processing functions that raise on every attempt *)

\* the sessions transcribeAudio rejects
RaisingSessions == {session \in WorkerSessions : ~transcribeAudio(session).ok}

NextRaising ==
    \/ \E s \in Sources, i \in RecSourceIds, b \in Bytes, m \in MimeTypes :
           uploadAndProcessRecording(s, i, b, m, "none")
    \/ \E j \in JobIds : startJob(j)
    \/ \E j \in JobIds, f \in BOOLEAN : setProcessing(j, f)
    \/ \E j \in JobIds, s \in WorkerSessions : downloadAndTranscribe(j, TRUE, s)
    \/ \E j \in JobIds, s \in RaisingSessions : downloadAndTranscribe(j, FALSE, s)
    \/ \E j \in JobIds : catchFailed(j)
    \/ \E j \in JobIds : jobFailed(j)
    \/ \E j \in JobIds : backoffElapsed(j)
    \/ \E id \in MessageIds, f \in BOOLEAN : queueMessageProcessing(id, f)
    \/ \E j \in NlpJobIds, r \in NlpRunIds : nlpStartJob(j, r)
    \/ \E r \in NlpRunIds, f \in BOOLEAN : pmFindMessage(r, f)
    \/ \E r \in NlpRunIds, f \in ExtractFaults \ {"none"}, result \in NlpResults :
           pmExtractEntities(r, f, result)
    \/ \E r \in NlpRunIds : pmThrow(r)
    \/ \E j \in NlpJobIds : nlpBackoffElapsed(j)

SpecRaising == InitNlp /\ [][NextRaising]_vars

\* Both queues with their workers scheduled fairly: the processor of each queue takes a
\* waiting job whenever it is free. No step of a job under way is fair, so a job of
\* either queue may never finish.
SpecQueuesFair ==
    /\ InitNlp
    /\ [][NextRaising]_vars
    /\ WF_vars(\E j \in JobIds : startJob(j))
    /\ WF_vars(\E j \in NlpJobIds, r \in NlpRunIds : nlpStartJob(j, r))

----------------------------------------------------------------------------
(* One transcribeAudio call on its own, over every session up to MaxSegments events *)

InitTranscribe ==
    /\ recordings = <<>>
    /\ transcriptions = <<>>
    /\ blobs = [k \in StorageKeys |-> NoBytes]
    /\ jobs = <<>>
    /\ retrying = [id \in RecordingIds |-> 0]
    /\ response = NoResponse
    /\ call \in {[session |-> s, result |-> NoResult, done |-> FALSE] : s \in Sessions}
    /\ messages = EmptyBag
    /\ syncs = [r \in 1..MaxSyncs |-> Idle]
    /\ entities = EmptyBag
    /\ tasks = EmptyBag
    /\ requirements = EmptyBag
    /\ projects = <<>>
    /\ nlpJobs = <<>>
    /\ nlpRuns = [r \in NlpRunIds |-> NoRun]

transcribeAudioCall ==
    /\ ~call.done
    /\ call' = [call EXCEPT !.result = transcribeAudio(call.session), !.done = TRUE]
    /\ UNCHANGED <<transVars, syncVars, nlpVars>>

NextTranscribe == transcribeAudioCall

SpecTranscribe == InitTranscribe /\ [][NextTranscribe]_vars

----------------------------------------------------------------------------
(* Claims on the transcription pipeline *)

StatusOf(id) == recordings[id].transcriptionStatus

LegalTransitions ==
    { <<"pending", "processing">>, <<"processing", "completed">>,
      <<"pending", "failed">>, <<"processing", "failed">> }

\* C3: every change of a recording's transcriptionStatus is pending->processing,
\* processing->completed, pending->failed, processing->failed, or the reset of a
\* failed recording to pending made by a retryTranscription call.
C3_StateMachineLegality ==
    [][\A id \in DOMAIN recordings :
          StatusOf(id)' # StatusOf(id) =>
              \/ <<StatusOf(id), StatusOf(id)'>> \in LegalTransitions
              \/ /\ StatusOf(id) = "failed"
                 /\ StatusOf(id)' = "pending"
                 /\ retrying'[id] < retrying[id]]_vars

\* C4: a retryTranscription call on a recording whose status is pending, processing or
\* completed returns an error and changes neither the recording, nor the queue, nor
\* anything else.
C4_RetryRejectedUnlessFailed ==
    [][\A id \in DOMAIN recordings :
          (StatusOf(id) # "failed" /\ retryTranscriptionCheck(id)) =>
              /\ response' = Failure("retry", id)
              /\ UNCHANGED <<recordings, jobs, retrying, transcriptions, blobs>>]_vars

C4_Witness ==
    /\ response = Failure("retry", 1)
    /\ Exists(1)
    /\ StatusOf(1) = "completed"

\* An explicit call that resets a recording: retryTranscription or the queue endpoint
ExplicitRequeue(id) ==
    \E f \in {"none", "queue"} : queueTranscription(id, f) \/ retryTranscriptionQueue(id, f)

\* C5: once a recording's status is failed, only an explicit call (retryTranscription,
\* or the queue endpoint) changes it; no step of a worker, and so no automatic
\* re-attempt of the queue, does.
C5_FailedUntilExplicitRetry ==
    [][\A id \in DOMAIN recordings :
          (StatusOf(id) = "failed" /\ StatusOf(id)' # "failed") => ExplicitRequeue(id)]_vars

C7_UploadCreatesPendingAndEnqueues ==
    [][\A s \in Sources, i \in RecSourceIds, b \in Bytes, m \in MimeTypes :
          uploadAndProcessRecording(s, i, b, m, "none") =>
              LET id == Len(recordings) + 1
              IN /\ Len(recordings') = id
                 /\ \A old \in DOMAIN recordings : recordings'[old] = recordings[old]
                 /\ recordings'[id].transcriptionStatus = "pending"
                 /\ recordings'[id].source = s /\ recordings'[id].sourceId = i
                 /\ Len(jobs') = Len(jobs) + 1
                 /\ \A old \in DOMAIN jobs : jobs'[old] = jobs[old]
                 /\ jobs'[Len(jobs')].recordingId = id
                 /\ jobs'[Len(jobs')].state = "waiting"
                 /\ jobs'[Len(jobs')].attemptsMade = 0
                 /\ response' = [op |-> "upload", success |-> TRUE, id |-> id,
                                 status |-> "pending"]]_vars

C7_Witness ==
    /\ response = [op |-> "upload", success |-> TRUE, id |-> 1, status |-> "pending"]
    /\ Len(recordings) = 1
    /\ StatusOf(1) = "pending"
    /\ Len(jobs) = 1
    /\ jobs[1].recordingId = 1
    /\ jobs[1].state = "waiting"

SilentSession(session) ==
    \A k \in DOMAIN session.segments : session.segments[k].reason # "RecognizedSpeech"

\* C8: a processTranscription call whose speech result arrives keeps that result, appends
\* exactly one Transcription row for its recording with the result's text, language and
\* confidence, and leaves the status completed at the moment it returns; no other step
\* writes a Transcription row.
C8_SuccessAppendsRowAndCompletes ==
    [][\A j \in DOMAIN jobs :
          LET id == jobs[j].recordingId
          IN /\ \A s \in WorkerSessions :
                   (downloadAndTranscribe(j, FALSE, s) /\ jobs'[j].pc = "store") =>
                       jobs'[j].result = transcribeAudio(s)
             /\ storeTranscription(j, FALSE) =>
                   transcriptions' =
                       Append(transcriptions,
                              [audioRecordingId |-> id,
                               content |-> jobs[j].result.text,
                               language |-> jobs[j].result.language,
                               confidenceScore |-> jobs[j].result.confidence])
             /\ setCompleted(j, FALSE) =>
                   /\ StatusOf(id)' = "completed"
                   /\ jobs'[j].pc = "return"
                   /\ \E t \in DOMAIN transcriptions :
                         /\ transcriptions[t].audioRecordingId = id
                         /\ transcriptions[t].content = jobs[j].result.text
             /\ (jobs[j].pc # "store" /\ jobs'[j] # jobs[j]) =>
                   transcriptions' = transcriptions]_vars

C8_Witness ==
    \E j \in DOMAIN jobs :
        /\ JobAt(j, "return")
        /\ StatusOf(jobs[j].recordingId) = "completed"
        /\ Len(transcriptions) = 1
        /\ transcriptions[1] =
               [audioRecordingId |-> jobs[j].recordingId, content |-> <<"h", "i">>,
                language |-> "en-US", confidenceScore |-> <<1, 2>>]

\* A step of processTranscription that raises: a store write, the download or the
\* speech collaborator
Raises(j) ==
    \/ setProcessing(j, TRUE)
    \/ storeTranscription(j, TRUE)
    \/ setCompleted(j, TRUE)
    \/ \E s \in WorkerSessions : downloadAndTranscribe(j, TRUE, s)
    \/ \E s \in WorkerSessions : ~transcribeAudio(s).ok /\ downloadAndTranscribe(j, FALSE, s)

----------------------------------------------------------------------------
(* Claims on transcribeAudio *)

\* C10: a session that stops without any recognized segment resolves (it is not
\* rejected) with empty text, language en-US and the default confidence 0.5.
C10_NoSpeechIsSuccess ==
    (call.done /\ call.session.end = "sessionStopped" /\ SilentSession(call.session)) =>
        call.result = [ok |-> TRUE, text |-> <<>>, language |-> "en-US",
                       confidence |-> <<1, 2>>]

C10_Witness ==
    /\ call.done
    /\ call.session.end = "sessionStopped"
    /\ Len(call.session.segments) = MaxSegments
    /\ SilentSession(call.session)
    /\ call.result.ok
    /\ call.result.text = <<>>

----------------------------------------------------------------------------
(* Claims about message ingestion *)

\* C1: in every reachable state, whatever sync runs and webhook deliveries have
\* interleaved, the Message table holds at most one row for each (source, sourceId).
C1_DedupKeyUniqueness ==
    \A row \in BagToSet(messages) :
        /\ CopiesIn(row, messages) = 1
        /\ RowsWithKey(messages, row.source, row.sourceId) = {row}

\* two syncs of one platform run at once: one found no row for a message, and the
\* other stored that message before the first one's write
C1_Witness ==
    \E r, other \in SyncIds :
        /\ r # other
        /\ syncs[r].found = "no"
        /\ syncs[other].platform = syncs[r].platform
        /\ syncs[other].total > 0
        /\ \E row \in RowsWithKey(messages, syncs[r].row.source, syncs[r].row.sourceId) :
               row.channelName = syncs[r].row.channelName

ContentsOf(table, key) == {row.content : row \in RowsWithKey(table, key[1], key[2])}

KeysOf(table) == {<<row.source, row.sourceId>> : row \in BagToSet(table)}

SameRowsAndContent(once, twice) ==
    /\ BagCardinality(twice) = BagCardinality(once)
    /\ KeysOf(twice) = KeysOf(once)
    /\ \A key \in KeysOf(once) : ContentsOf(twice, key) = ContentsOf(once, key)

\* C2: running syncAllMessages a second time on identical platform input leaves the
\* Message table with the same number of rows and the same content per
\* (source, sourceId) as the first run left.
C2_IdempotentSync ==
    [][/\ \A content \in TeamsContents :
              SameCall("teams", content, Null) /\ teamsSyncAllMessagesCall(content)
                  => SameRowsAndContent(messages, messages')
       /\ \A content \in SlackContents, userName \in UserNames :
              SameCall("slack", content, userName)
                  /\ slackSyncAllMessagesCall(content, userName)
                  => SameRowsAndContent(messages, messages')]_vars

\* a Teams sync over both channels, the first holding a message and its edit, has run
\* a second time on the same input, after a Slack sync had stored a row
C2_Witness ==
    /\ call.platform = "teams"
    /\ call.runs >= 2
    /\ Len(call.content.c1) = 2
    /\ call.content.c1[1].content # call.content.c1[2].content
    /\ Len(call.content.c2) > 0
    /\ BagCardinality(messages) = 3
    /\ HasKey(messages, "slack", "1.5")

----------------------------------------------------------------------------
(* Claims about the job queues *)

\* a job of a queue has used no more than its attempts, and is failed exactly when it
\* has used them all
AttemptsBounded(queue, attempts) ==
    \A j \in DOMAIN queue :
        /\ queue[j].attemptsMade <= attempts
        /\ queue[j].state = "failed" <=> queue[j].attemptsMade = attempts
        /\ queue[j].state # "removed"

\* no job leaves the queue, and a failed job is left as it is
FailedKept(queue, queueAfter) ==
    /\ Len(queueAfter) >= Len(queue)
    /\ \A j \in DOMAIN queue : queue[j].state = "failed" => queueAfter[j] = queue[j]

\* C11: a job whose processing function raises on every attempt is executed at most
\* its configured number of attempts (3 for transcribe, 2 for process-message); after
\* the last one it stays in the queue in state failed and is not attempted again.
C11_BoundedAutomaticRetry ==
    /\ [](AttemptsBounded(jobs, TranscribeAttempts)
            /\ AttemptsBounded(nlpJobs, ProcessMessageAttempts))
    /\ [][FailedKept(jobs, jobs') /\ FailedKept(nlpJobs, nlpJobs')]_vars

\* a transcribe job has failed after three attempts and a process-message job after two
C11_Witness ==
    /\ \E j \in DOMAIN jobs :
           jobs[j].state = "failed" /\ jobs[j].attemptsMade = TranscribeAttempts
    /\ \E j \in DOMAIN nlpJobs :
           nlpJobs[j].state = "failed" /\ nlpJobs[j].attemptsMade = ProcessMessageAttempts

----------------------------------------------------------------------------
(* Claims about failures inside a sync run *)

\* the run in slot r goes on to its next channel with the store and its count as they were
ChannelSkipped(r) ==
    /\ messages' = messages
    /\ response' = response
    /\ syncs'[r].platform = syncs[r].platform
    /\ syncs'[r].teams = syncs[r].teams
    /\ syncs'[r].channels = Tail(syncs[r].channels)
    /\ syncs'[r].total = syncs[r].total

\* the run in slot r goes on to its next message with the store and its count as they were
MessageSkipped(r) ==
    /\ messages' = messages
    /\ response' = response
    /\ syncs'[r].platform = syncs[r].platform
    /\ syncs'[r].channels = syncs[r].channels
    /\ syncs'[r].todo = Tail(syncs[r].todo)
    /\ syncs'[r].total = syncs[r].total

\* C12: when fetching or storing the messages of one channel raises, the rows stored so
\* far stay, the run goes on with the remaining messages and channels, every write that
\* changes the store is counted, and the run returns success: true with that count.
C12_PartialFailureIsolation ==
    [][\A r \in SyncIds :
         syncs'[r] # syncs[r] =>
             /\ getChannelMessages(r, TRUE, <<>>) => ChannelSkipped(r)
             /\ storeMessageWrite(r, TRUE) => MessageSkipped(r)
             /\ storeMessageWrite(r, FALSE) /\ messages' # messages
                    => syncs'[r].total = syncs[r].total + 1
             /\ syncReturn(r)
                    => response' = SyncSuccess(IF Running(r, "teams") THEN "teamsSync"
                                               ELSE "slackSync", syncs[r].total)]_vars

\* a Teams run has come to its end with one message counted: the row of channel c1 is
\* in the store and channel c2 has given none
C12_Witness ==
    \E r \in SyncIds :
        /\ Running(r, "teams")
        /\ BetweenChannels(r)
        /\ syncs[r].channels = <<>>
        /\ syncs[r].teams = <<>>
        /\ syncs[r].cur.id = "c2"
        /\ syncs[r].total = 1
        /\ HasKey(messages, "teams", "t1")
        /\ ~HasKey(messages, "teams", "t2")

----------------------------------------------------------------------------
(* Claims about the webhooks *)

\* a notification that carries the one created message resourceData
TeamsCreated(resourceData) ==
    [clientState |-> "secret",
     value |-> <<[changeType |-> "created", resourceData |-> resourceData]>>]

\* an event_callback that carries the one event
SlackCallback(event) == [type |-> "event_callback", timestamp |-> 1, event |-> event]

\* C13: a message delivered through a webhook that is accepted and whose store call
\* does not fail leaves the store as the upsert of storeMessages would: a row that has
\* its (source, sourceId) gets the delivered content and timestamp.
C13_WebhookFollowsUpsert ==
    [][/\ \A resourceData \in TeamsResources, now \in Times :
              handleTeamsWebhook(TeamsCreated(resourceData), "secret", 0, now)
                  => messages' = messageUpsert(messages,
                                               teamsWebhookRow(resourceData, now)).table
       /\ \A event \in {e \in SlackEvents : e.type = "message" /\ e.subtype = Null} :
              handleSlackWebhook(SlackCallback(event),
                                 slackSignatureOf("s", SlackCallback(event)), "s", FALSE)
                  => messages' = messageUpsert(messages, slackWebhookRow(event)).table]_vars

\* C14: a webhook delivery changes the Message table only after it was validated
\* against a configured secret: the Teams clientState equals TEAMS_WEBHOOK_SECRET, the
\* Slack signature is the HMAC under SLACK_SIGNING_SECRET, and the secret is set; every
\* other delivery is answered success: false and writes nothing.
C14_ValidationPrecedesWrite ==
    [][/\ \A n \in TeamsNotifications, secret \in TeamsSecrets, now \in Times :
              \A f \in 0..Len(n.value) :
                  handleTeamsWebhook(n, secret, f, now)
                      => IF secret # Null /\ n.clientState = secret
                         THEN response' = WebhookResponse("teamsWebhook", TRUE)
                         ELSE /\ response' = WebhookResponse("teamsWebhook", FALSE)
                              /\ messages' = messages
       /\ \A b \in SlackBodies, secret \in SlackSecrets :
              \A sig \in SlackSignatures(b), f \in BOOLEAN :
                  handleSlackWebhook(b, sig, secret, f)
                      => IF secret # Null /\ sig = slackSignatureOf(secret, b)
                         THEN response' = WebhookResponse("slackWebhook", TRUE)
                         ELSE /\ response' = WebhookResponse("slackWebhook", FALSE)
                              /\ messages' = messages]_vars

----------------------------------------------------------------------------
(* Claims about listing *)

\* C15: after a sync call in which nothing failed, every message that a channel of the
\* platform holds has a Message row, however many messages the channel holds.
C15_SyncComplete ==
    /\ call.platform = "teams"
           => \A c \in DOMAIN call.held : \A i \in 1..call.held[c] :
                  HasKey(messages, "teams", HeldId(c, i))
    /\ call.platform = "slack"
           => \A i \in 1..call.held.s1 : HasKey(messages, "slack", HeldId("s1", i))

----------------------------------------------------------------------------
(* Claims about credentials *)

\* the Integration table has an active row of the platform that has not expired
HasLiveCredential(table, platform, now) ==
    \E i \in DOMAIN table : /\ table[i].platform = platform
                            /\ table[i].isActive
                            /\ table[i].expiresAt > now

\* the Integration table has an active row of the platform
HasActiveCredential(table, platform) ==
    \E i \in DOMAIN table : table[i].platform = platform /\ table[i].isActive

\* the sync call of this step was refused before anything was contacted or written
Refused ==
    /\ ~call'.contacted
    /\ messages' = messages
    /\ response' = SyncFailure(IF call'.platform = "teams" THEN "teamsSync" ELSE "slackSync")

\* C16 as stated: a sync call of either platform made while the platform has no active,
\* non-expired credential contacts nothing, writes nothing and answers success: false.
C16_NoLiveCredentialRefused ==
    [][~HasLiveCredential(call'.integrations, call'.platform, Now) => Refused]_vars

\* C16: a Teams sync call made without an active, non-expired Teams credential, and a
\* Slack sync call made without an active Slack credential, contacts nothing, writes
\* nothing and answers success: false; Slack does not look at the expiry.
C16_NoCredentialRefused ==
    [][/\ call'.platform = "teams" /\ ~HasLiveCredential(call'.integrations, "teams", Now)
              => Refused
       /\ call'.platform = "slack" /\ ~HasActiveCredential(call'.integrations, "slack")
              => Refused]_vars

\* a Teams sync was refused while the only Teams credential is active and expired, with
\* rows in the store that an earlier call had written
C16_Witness ==
    /\ call.platform = "teams"
    /\ call.integrations = <<[platform |-> "teams", isActive |-> TRUE, expiresAt |-> 0]>>
    /\ ~call.contacted
    /\ response = SyncFailure("teamsSync")
    /\ messages # EmptyBag

----------------------------------------------------------------------------
(* Claims about the extraction pipeline *)

StoreUnchanged == UNCHANGED <<messages, entities, tasks, requirements, projects>>

\* the caller of a run that raised is told: a direct call answers success: false, a job
\* has used one more attempt and is delayed for its retry or failed
CallerTold(run) ==
    IF run.job = 0
    THEN response' = NlpResponse("processMessage", FALSE, NoResultYet)
    ELSE /\ nlpJobs'[run.job].attemptsMade = nlpJobs[run.job].attemptsMade + 1
         /\ nlpJobs'[run.job].state =
                IF nlpJobs[run.job].attemptsMade + 1 < ProcessMessageAttempts
                THEN "delayed" ELSE "failed"

\* C17: a processMessage call whose message does not exist, or whose extraction raises
\* or returns an unparsable response, raises to its caller and writes nothing: it
\* leaves its lookup and its extraction for the throw only, a step taken there or at the
\* throw changes no Message, Entity, Task, Requirement or Project row, and the throw
\* tells the caller.
C17_FailsFast ==
    [][\A r \in NlpRunIds :
         nlpRuns'[r] # nlpRuns[r] =>
             LET run == nlpRuns[r]
             IN /\ run.pc \in {"find", "extract", "throw"} => StoreUnchanged
                /\ run.pc = "find" /\ messageFindUnique(messages, run.messageId) = {}
                       => nlpRuns'[r].pc = "throw"
                /\ (\E fault \in ExtractFaults \ {"none"} :
                        pmExtractEntities(r, fault, NoResultYet))
                       => nlpRuns'[r].pc = "throw"
                /\ nlpRuns'[r].pc = "throw" /\ run.pc \in {"find", "extract"}
                       => nlpRuns'[r].result = NoResultYet
                /\ run.pc = "throw" => CallerTold(run)]_vars

\* the job of a message that does not exist has used an attempt and waits for its retry,
\* and no Entity, Task, Requirement or Project row exists
C17_Witness ==
    \E j \in DOMAIN nlpJobs :
        /\ messageFindUnique(messages, nlpJobs[j].messageId) = {}
        /\ nlpJobs[j].attemptsMade = 1
        /\ nlpJobs[j].state = "delayed"
        /\ entities = EmptyBag /\ tasks = EmptyBag /\ requirements = EmptyBag
        /\ projects = <<>>

\* the number of runs, finished or under way, that have stored entity number k
RECURSIVE StoredTimes(_, _)
StoredTimes(k, r) ==
    IF r = 0 THEN 0
    ELSE LET run == nlpRuns[r]
             underWay == run.pc # "idle"
             stored == \/ run.pc = "entities" /\ run.i > k
                       \/ run.pc \in {"linkFind", "linkWrite", "return"}
         IN (run.calls - (IF underWay THEN 1 ELSE 0)) + (IF stored THEN 1 ELSE 0)
                + StoredTimes(k, r - 1)

C19_ProjectNamesUnique ==
    \A id, other \in DOMAIN projects :
        id # other => Lower(projects[id].name) # Lower(projects[other].name)

\* C20: when a processMessage call whose extraction named candidate projects returns,
\* the message is linked to a project whose name is the first candidate, case ignored.
C20_FirstCandidateWins ==
    [][\A r \in NlpRunIds :
         nlpRuns[r].pc = "return" /\ nlpRuns'[r].pc = "idle"
                 /\ nlpRuns[r].result.projects # <<>>
             => \A row \in messageFindUnique(messages, nlpRuns[r].messageId) :
                    /\ row.projectId # NoProject
                    /\ Lower(projects[row.projectId].name)
                           = Lower(nlpRuns[r].result.projects[1])]_vars

----------------------------------------------------------------------------
(* Claims about what a sync run writes *)

\* a row without the two fields a replay refreshes
FrameOf(row) == [row EXCEPT !.content = "", !.timestamp = 0]

\* C21: a write of a sync run for a (source, sourceId) that has a row leaves that row's
\* projectId, channelId, channelName, authorId, authorName and messageType as they were,
\* and a write of a sync run touches no row of another (source, sourceId).
C21_ReplayFrame ==
    [][\A r \in SyncIds :
         syncs'[r] # syncs[r] /\ messages' # messages =>
             LET key == MessageIdOf(syncs[r].row)
             IN /\ \A old \in BagToSet(messages) :
                       IF MessageIdOf(old) = key
                       THEN \E new \in BagToSet(messages') :
                                /\ FrameOf(new) = FrameOf(old)
                                /\ CopiesIn(new, messages') = CopiesIn(old, messages)
                       ELSE CopiesIn(old, messages') = CopiesIn(old, messages)
                /\ \A new \in BagToSet(messages') :
                       MessageIdOf(new) = key
                           \/ CopiesIn(new, messages) = CopiesIn(new, messages')]_vars

\* the Teams message that was linked to project 1 with content a has been replayed with
\* its edited content and is still linked, in its channel and by its author
C21_Witness ==
    \E row \in BagToSet(messages) :
        /\ MessageIdOf(row) = <<"teams", "t1">>
        /\ row.content = "b"
        /\ row.projectId = 1
        /\ row.channelName = "General"
        /\ row.authorName = "Ann"

\* a raw Slack message of a bot or of the system
BotOrSystem(message) == message.bot_id # Null \/ message.subtype = "channel_join"

\* C22: no Slack row comes from a raw message with bot_id or subtype channel_join; a
\* sync call that has returned has stored every other message of its page and counts
\* exactly those in totalMessages.
C22_BotMessagesSkipped ==
    /\ \A row \in BagToSet(messages) :
           row.source = "slack"
               => \E message \in SlackRaw :
                      /\ ~BotOrSystem(message)
                      /\ message.ts = row.sourceId
                      /\ OrEmpty(message.text) = row.content
    /\ call.platform = "slack"
           => LET page == call.content.s1
                  kept == {i \in DOMAIN page : ~BotOrSystem(page[i])}
              IN /\ \A i \in kept : HasKey(messages, "slack", page[i].ts)
                 /\ response = SyncSuccess("slackSync", Cardinality(kept))

\* a Slack sync has returned over a page of a bot message and a user's message: one
\* message is counted and only the user's message has a row
C22_Witness ==
    /\ call.platform = "slack"
    /\ Len(call.content.s1) = 2
    /\ \E i \in 1..2 : call.content.s1[i].bot_id # Null
    /\ response = SyncSuccess("slackSync", 1)
    /\ HasKey(messages, "slack", "1.5")
    /\ ~HasKey(messages, "slack", "2.5")

----------------------------------------------------------------------------
(* Claims about the two queues together *)

NlpActiveJobs == {j \in DOMAIN nlpJobs : nlpJobs[j].state = "active"}

\* the extraction worker is free and a process-message job waits
ProcessMessageJobDue ==
    /\ NlpActiveJobs = {}
    /\ \E j \in DOMAIN nlpJobs : nlpJobs[j].state = "waiting"
    /\ \E r \in NlpRunIds : NlpAt(r, "idle") /\ nlpRuns[r].calls < MaxNlpCalls

\* the transcription worker is free and a transcribe job waits
TranscribeJobDue == ActiveJobs = {} /\ \E j \in DOMAIN jobs : jobs[j].state = "waiting"

\* C23: with each queue's worker scheduled fairly, a waiting process-message job is
\* taken by the free extraction worker whatever the transcription queue does, a
\* transcribe job that never finishes included; and a waiting transcribe job is taken by
\* the free transcription worker whatever the extraction queue does.
C23_QueuesIndependent ==
    /\ ProcessMessageJobDue ~> (NlpActiveJobs # {})
    /\ TranscribeJobDue ~> (ActiveJobs # {})

\* a process-message job is under way while a transcribe job is under way
C23_Witness ==
    /\ NlpActiveJobs # {}
    /\ ActiveJobs # {}

----------------------------------------------------------------------------
(* Claims about the blob store *)

\* C24: the bytes processTranscription downloads for a recording are the bytes that
\* recording was uploaded with, whatever was uploaded in between.
C24_AudioRoundTrip ==
    response.op = "download" => response.audioBuffer = call[response.id]

----------------------------------------------------------------------------
(* Claims about listing the channels of a team *)

\* C25: when listing the channels of one team raises, the Teams run goes on with the
\* remaining teams and gives no failure response.
C25_TeamFailureNotFatal ==
    [][\A r \in SyncIds :
         syncs'[r] # syncs[r] /\ teamsGetChannels(r, TRUE)
             => /\ syncs'[r].platform = "teams"
                /\ syncs'[r].teams = Tail(syncs[r].teams)
                /\ syncs'[r].total = syncs[r].total
                /\ response' = response]_vars

----------------------------------------------------------------------------
(* Claims about the transcribe jobs of one recording *)

\* the transcribe jobs of a recording that have not finished
UnfinishedJobs(recordingId) ==
    {j \in DOMAIN jobs : /\ jobs[j].recordingId = recordingId
                         /\ jobs[j].state \in {"waiting", "delayed", "active"}}

\* C26: a recording has at most one transcribe job that is waiting, delayed or active.
C26_OneUnfinishedJob ==
    \A id \in DOMAIN recordings : Cardinality(UnfinishedJobs(id)) <= 1

----------------------------------------------------------------------------
(* Claims about the projects of tasks and requirements *)

\* the slot r hosts the only processMessage call so far, and the call returns in this step
OnlyCallReturns(r) ==
    /\ nlpRuns[r].pc = "return"
    /\ nlpRuns'[r].pc = "idle"
    /\ \A other \in NlpRunIds \ {r} : nlpRuns[other] = NoRun

\* C27: when a processMessage call on message m returns, every Task and Requirement with
\* sourceMessageId = m has the projectId of message m.
C27_RowsShareMessageProject ==
    [][\A r \in NlpRunIds :
         OnlyCallReturns(r) =>
             \A row \in messageFindUnique(messages, nlpRuns[r].messageId) :
                 /\ \A task \in BagToSet(tasks) :
                        task.sourceMessageId = nlpRuns[r].messageId
                            => task.projectId = row.projectId
                 /\ \A requirement \in BagToSet(requirements) :
                        requirement.sourceMessageId = nlpRuns[r].messageId
                            => requirement.projectId = row.projectId]_vars

\* the Task rows that came from message messageId, each copy counted
TasksOf(messageId) ==
    [row \in {task \in BagToSet(tasks) : task.sourceMessageId = messageId}
        |-> CopiesIn(row, tasks)]

\* C28: when the only processMessage call returns after storing the k >= 2 tasks of an
\* extraction that named no candidate project, for a message that had no projectId,
\* the Project table holds exactly one row and the k Tasks are all stored under it.
C28_OneDefaultProject ==
    [][\A r \in NlpRunIds :
         /\ OnlyCallReturns(r)
         /\ nlpRuns[r].calls = 1
         /\ nlpRuns[r].result.projects = <<>>
         /\ Len(nlpRuns[r].result.tasks) >= 2
         /\ BagCardinality(TasksOf(nlpRuns[r].messageId)) = Len(nlpRuns[r].result.tasks)
         => /\ Len(projects) = 1
            /\ \A task \in DOMAIN TasksOf(nlpRuns[r].messageId) : task.projectId = 1]_vars

----------------------------------------------------------------------------
(* Claims about the status of a recording and what stands behind it *)

\* the Transcription rows of a recording
TranscriptionsOf(recordingId) ==
    {t \in DOMAIN transcriptions : transcriptions[t].audioRecordingId = recordingId}

\* C29: a recording whose transcriptionStatus is completed has at least one
\* Transcription row, whatever the interleaving of jobs, retries and manual queueing.
C29_CompletedHasTranscription ==
    \A id \in DOMAIN recordings :
        recordings[id].transcriptionStatus = "completed" => TranscriptionsOf(id) # {}

\* a job completed the recording while a second job of the same recording is running
C29_Witness ==
    \E id \in DOMAIN recordings, j, other \in DOMAIN jobs :
        /\ recordings[id].transcriptionStatus = "completed"
        /\ TranscriptionsOf(id) # {}
        /\ j # other
        /\ jobs[j].recordingId = id /\ jobs[other].recordingId = id
        /\ jobs[j].state = "active" /\ jobs[j].pc = "return"
        /\ jobs[other].state = "active" /\ jobs[other].pc \in {"fetch", "store", "catch"}

\* no retryTranscription call is between its check and its queueTranscription; upload
\* and queue calls are single steps
NoCallInProgress == \A id \in RecordingIds : retrying[id] = 0

\* C30: whenever no upload, queue or retry call is in progress, every recording whose
\* status is pending has a transcribe job that is waiting, delayed or active.
C30_PendingHasQueuedJob ==
    NoCallInProgress =>
        \A id \in DOMAIN recordings :
            recordings[id].transcriptionStatus = "pending" => UnfinishedJobs(id) # {}

====
